---- MODULE Spec2Model ----
(***************************************************************************)
(* Model of the Odoo price-update client (OdooPriceUpdater in              *)
(* src/odoo-price-manager/src/lib/odoo-client.ts): one session object, the *)
(* remote catalog it talks to, and the XML-RPC transport between them.     *)
(* Every await of a remote call is a suspension point: the code up to the  *)
(* next await is one action, the transport's answer starts the next one.   *)
(***************************************************************************)
EXTENDS Integers, Sequences, FiniteSets, TLC

(***************************************************************************)
(* Bounds of the model.                                                    *)
(***************************************************************************)
\* longest batch handed to batchUpdateFromData
MaxBatch == 3

(***************************************************************************)
(* JavaScript values.  Strings are sequences of one-character strings, so  *)
(* that trim and parseFloat are computed character by character.  Numbers  *)
(* are integers counting hundredths (a price of 5.00 is 500); NaN is kept  *)
(* apart.                                                                  *)
(***************************************************************************)
Num(n) == [type |-> "number", nan |-> FALSE, v |-> n, s |-> <<>>]
Null == [type |-> "null", nan |-> FALSE, v |-> 0, s |-> <<>>]
NaN == [type |-> "number", nan |-> TRUE, v |-> 0, s |-> <<>>]
Str(chars) == [type |-> "string", nan |-> FALSE, v |-> 0, s |-> chars]
\* true and false; v is the number the boolean converts to (1.00 or 0)
Bool(b) == [type |-> "boolean", nan |-> FALSE, v |-> IF b THEN 100 ELSE 0, s |-> <<>>]

IsSpace(c) == c = " "
IsDigit(c) == c \in {"0", "1", "2", "3", "4", "5", "6", "7", "8", "9"}
DigitVal(c) ==
  CASE c = "0" -> 0 [] c = "1" -> 1 [] c = "2" -> 2 [] c = "3" -> 3 [] c = "4" -> 4
    [] c = "5" -> 5 [] c = "6" -> 6 [] c = "7" -> 7 [] c = "8" -> 8 [] c = "9" -> 9

RECURSIVE TrimStart(_)
TrimStart(s) == IF s # <<>> /\ IsSpace(Head(s)) THEN TrimStart(Tail(s)) ELSE s

RECURSIVE TrimEnd(_)
TrimEnd(s) ==
  IF s # <<>> /\ IsSpace(s[Len(s)]) THEN TrimEnd(SubSeq(s, 1, Len(s) - 1)) ELSE s

\* String.prototype.trim
Trim(s) == TrimEnd(TrimStart(s))

\* the longest prefix of s made of digits
RECURSIVE DigitPrefix(_)
DigitPrefix(s) ==
  IF s # <<>> /\ IsDigit(Head(s)) THEN <<Head(s)>> \o DigitPrefix(Tail(s)) ELSE <<>>

RECURSIVE DigitsValue(_)
DigitsValue(ds) ==
  IF ds = <<>> THEN 0 ELSE 10 * DigitsValue(SubSeq(ds, 1, Len(ds) - 1)) + DigitVal(ds[Len(ds)])

\* hundredths denoted by the fraction digits fs (digits past the second are
\* below the resolution of the model and are cut)
FractionHundredths(fs) ==
  IF Len(fs) = 0 THEN 0
  ELSE IF Len(fs) = 1 THEN 10 * DigitVal(fs[1])
  ELSE 10 * DigitVal(fs[1]) + DigitVal(fs[2])

\* parseFloat: skips leading white space, reads an optional sign, digits, and
\* an optional fraction, and ignores whatever follows; NaN when no digit is
\* read
ParseFloat(s) ==
  LET t == TrimStart(s)
      neg == t # <<>> /\ Head(t) = "-"
      u == IF t # <<>> /\ Head(t) \in {"-", "+"} THEN Tail(t) ELSE t
      ip == DigitPrefix(u)
      r == SubSeq(u, Len(ip) + 1, Len(u))
      fp == IF r # <<>> /\ Head(r) = "." THEN DigitPrefix(Tail(r)) ELSE <<>>
      mag == 100 * DigitsValue(ip) + FractionHundredths(fp)
  IN IF ip = <<>> /\ fp = <<>> THEN NaN
     ELSE Num(IF neg THEN 0 - mag ELSE mag)

(***************************************************************************)
(* Completions: a function either returns a value or throws.               *)
(***************************************************************************)
\* what the caller holds before any operation has returned: a completion
\* tagged with the operation it belongs to (the tag is the first field, so
\* completions of different operations differ before their values are compared)
NoRet == [of |-> "none", ok |-> TRUE, val |-> <<>>, err |-> "none"]

Return(x) == [ok |-> TRUE, val |-> x, err |-> "none"]
Throw(e) == [ok |-> FALSE, val |-> <<>>, err |-> e]

(***************************************************************************)
(* Validation (odoo-client.ts, validatePrice and validateBarcode).         *)
(***************************************************************************)
\* the global isNaN: the argument is converted to a number first; null
\* converts to 0, true to 1 and false to 0, none of which is NaN
IsNaNJS(x) == x.type = "number" /\ x.nan

\* x < 0: the operand is converted to a number first (null to 0, true to 1,
\* false to 0); every comparison with NaN is false
LessThanZero(x) == x.type = "number" /\ ~x.nan /\ x.v < 0

\* mutant: the sign is not checked
validatePrice_NoSignCheck(price) ==
  LET priceFloat == IF price.type = "string" THEN ParseFloat(price.s) ELSE price
  IN IF IsNaNJS(priceFloat) THEN Throw("Invalid price format") ELSE Return(priceFloat)

validatePrice(price) ==
  LET priceFloat == IF price.type = "string" THEN ParseFloat(price.s) ELSE price
  IN IF IsNaNJS(priceFloat) THEN Throw("Invalid price format")
     ELSE IF LessThanZero(priceFloat) THEN Throw("Price cannot be negative")
     ELSE Return(priceFloat)

\* mutant: only the leading white space is removed
validateBarcode_TrimStartOnly(barcode) ==
  IF barcode = <<>> \/ Trim(barcode) = <<>> THEN Throw("Barcode cannot be empty")
  ELSE Return(TrimStart(barcode))

validateBarcode(barcode) ==
  IF barcode = <<>> \/ Trim(barcode) = <<>> THEN Throw("Barcode cannot be empty")
  ELSE Return(Trim(barcode))

(***************************************************************************)
(* The remote catalog (product.template) and the calls that reach it.      *)
(***************************************************************************)
\* number of entities of the remote catalog
NumProducts == 4

ProductIds == 1..NumProducts

\* Entities 1 and 2 share the barcode "A", entity 3 carries "B", every other
\* entity has no barcode (Odoo stores false; written <<>> here).
InitCatalog ==
  [id \in ProductIds |->
     [name |-> id,
      barcode |-> IF id \in {1, 2} THEN <<"A">> ELSE IF id = 3 THEN <<"B">> ELSE <<>>,
      list_price |-> Num(1000 + 100 * id),
      default_code |-> 10 + id,
      categ_id |-> 1]]

\* the elements of a set of integers in increasing order
RECURSIVE SortedSeq(_)
SortedSeq(S) ==
  IF S = {} THEN <<>>
  ELSE LET m == CHOOSE x \in S : \A y \in S : x <= y
       IN <<m>> \o SortedSeq(S \ {m})

Range(q) == {q[k] : k \in 1..Len(q)}

\* product.template search with the domain [['barcode', '=', b]]
RemoteSearch(cat, b) == SortedSeq({id \in DOMAIN cat : cat[id].barcode = b})

\* product.template write of {list_price: price} on ids
RemoteWrite(cat, ids, price) ==
  [id \in DOMAIN cat |->
     IF id \in Range(ids) THEN [cat[id] EXCEPT !.list_price = price] ELSE cat[id]]

\* product.template read of name, barcode, list_price, default_code, categ_id
RemoteRead(cat, ids) ==
  [k \in 1..Len(ids) |->
     [id |-> ids[k], name |-> cat[ids[k]].name, barcode |-> cat[ids[k]].barcode,
      list_price |-> cat[ids[k]].list_price, default_code |-> cat[ids[k]].default_code,
      categ_id |-> cat[ids[k]].categ_id]]

\* a call handed to the transport by methodCall; row is the 0-based batch
\* index of the request it belongs to (0 outside a batch)
Call(endpoint, method, row, barcode, ids, price) ==
  [endpoint |-> endpoint, method |-> method, row |-> row, barcode |-> barcode,
   ids |-> ids, price |-> price, reply |-> "pending", rids |-> <<>>]

(***************************************************************************)
(* ConfigManager (part_006 490-521): the OdooConfig is read from the       *)
(* process environment when a route constructs the manager.                *)
(***************************************************************************)
\* an environment variable: not set, or set to a string
Unset == [defined |-> FALSE, s |-> ""]
Set(str) == [defined |-> TRUE, s |-> str]

\* x || d on a string that may be undefined: the empty string is falsy too
OrElse(x, d) == IF x.defined /\ x.s # "" THEN x.s ELSE d

\* the environments the routes run in: the URL is left to its default or is
\* a bare host name; the database is unset or set, the user name empty or set, the
\* password unset, empty or set
EnvInputs ==
  [ODOO_URL : {Unset, Set("localhost")},
   ODOO_DB : {Unset, Set("db")},
   ODOO_USERNAME : {Set(""), Set("admin")},
   ODOO_PASSWORD : {Unset, Set(""), Set("secret")}]

\* lines 498-503: the config literal
ConfigOf(e) ==
  [url |-> OrElse(e.ODOO_URL, "http://localhost:8069"), db |-> OrElse(e.ODOO_DB, ""),
   username |-> OrElse(e.ODOO_USERNAME, ""), password |-> OrElse(e.ODOO_PASSWORD, "")]

\* missingVars.join(', ')
RECURSIVE Join(_)
Join(names) ==
  IF names = <<>> THEN <<>>
  ELSE IF Len(names) = 1 THEN names
  ELSE <<names[1], ", ">> \o Join(Tail(names))

\* mutant: the password is not required
validateConfig_NoPassword(e) ==
  LET c == ConfigOf(e)
      missingVars == (IF c.db = "" THEN <<"ODOO_DB">> ELSE <<>>)
                       \o (IF c.username = "" THEN <<"ODOO_USERNAME">> ELSE <<>>)
  IN IF Len(missingVars) > 0
     THEN Throw(<<"Missing required environment variables: ">> \o Join(missingVars))
     ELSE Return(c)

\* lines 497-516: validateConfig, run by the constructor of ConfigManager
validateConfig(e) ==
  LET c == ConfigOf(e)
      missingVars == (IF c.db = "" THEN <<"ODOO_DB">> ELSE <<>>)
                       \o (IF c.username = "" THEN <<"ODOO_USERNAME">> ELSE <<>>)
                       \o (IF c.password = "" THEN <<"ODOO_PASSWORD">> ELSE <<>>)
  IN IF Len(missingVars) > 0
     THEN Throw(<<"Missing required environment variables: ">> \o Join(missingVars))
     ELSE Return(c)

\* new URL(url) throws on a string that is no absolute URL
NewURLThrows(url) == url \notin {"http://localhost:8069"}

(***************************************************************************)
(* State.                                                                  *)
(***************************************************************************)
VARIABLES
  env,                \* process.env, as ConfigManager reads it
  config,             \* the OdooConfig the session is constructed with
  commonClient,       \* this.commonClient is not null
  objectClient,       \* this.objectClient is not null
  uid,                \* this.uid; 0 stands for null, false and 0
  catalog,            \* the remote catalog
  op,                 \* the public operation running: idle, connect, update, batch, lookup, done
  pc,                 \* the await the running operation is suspended at
  frame,              \* locals of updateProductPrice / lookupProduct
  data,               \* batchUpdateFromData: its argument
  i,                  \* batchUpdateFromData: the loop index
  results,            \* batchUpdateFromData: results
  successfulUpdates,  \* batchUpdateFromData: successfulUpdates
  failedUpdates,      \* batchUpdateFromData: failedUpdates
  attempted,          \* history: the batch indices passed to updateProductPrice
  calls,              \* history: the calls handed to the transport by the operation
  inflight,           \* indices in calls of the calls the transport has not answered
  ret,                \* completion of the last public operation
  connects,           \* history: what the connect calls of the session returned
  route,              \* the price-compare route: its locals
  probe,              \* a validator applied on its own: argument and completion
  research,           \* the barcode-research route: its locals, and the services it calls
  approval            \* the approve route, and what the browser holds between requests

vars == <<env, config, commonClient, objectClient, uid, catalog, op, pc, frame, data, i,
          results, successfulUpdates, failedUpdates, attempted, calls, inflight, ret,
          connects, route, probe, research, approval>>

sessionVars == <<env, config, commonClient, objectClient, uid>>
batchVars == <<data, i, results, successfulUpdates, failedUpdates, attempted>>
auxVars == <<route, probe, research, approval>>

\* the locals before the function runs; result is the value its promise
\* settles with, meaningful once pc is "settled"
NoFrame ==
  [barcode |-> <<>>, newPrice |-> Num(0), validatedBarcode |-> <<>>,
   validatedPrice |-> Num(0), productIds |-> <<>>,
   result |-> Return([success |-> FALSE, message |-> "pending", updated_count |-> 0,
                      barcode |-> <<>>, row_number |-> 0])]

\* no connect has returned yet
NoConnects == [succeeded |-> FALSE, last |-> "none"]

\* the history once a connect has returned value
ConnectReturned(h, value) ==
  [succeeded |-> h.succeeded \/ value, last |-> IF value THEN "true" ELSE "false"]

\* the approve route before a comparison has been answered: rows is the
\* price list that was compared, first its comparisons row by row, updates
\* the body of the approve request; submitted, faulted and acknowledged
\* record whether batchUpdateFromData ran, whether a call of it faulted and
\* whether every write returned true
NoApproval ==
  [pc |-> "none", rows |-> <<>>, first |-> <<>>, updates |-> <<>>, submitted |-> FALSE,
   faulted |-> FALSE, acknowledged |-> FALSE, status |-> 0]

\* the price-compare route before a request reaches it
NoRoute == [pc |-> "none", rows |-> <<>>, quickbooksProducts |-> <<>>,
            odooProducts |-> <<>>, odooProductMap |-> <<>>, comparisons |-> <<>>]

\* no validator applied yet
NoProbe == [fn |-> "none", arg |-> Str(<<>>), out |-> Throw("pending"),
            again |-> Throw("pending")]

\* null, where a research record or a product is expected
NoRecord == [isNull |-> TRUE, barcode |-> "", productName |-> ""]

\* the barcode-research route before a request reaches it, with the table of
\* the record store and whether the lookup service has its API key
ResearchOver(table, apiKey) ==
  [pc |-> "none", barcode |-> "", saveToDatabase |-> FALSE, existingRecord |-> NoRecord,
   record |-> NoRecord, requests |-> <<>>, table |-> table, apiKey |-> apiKey,
   response |-> [status |-> 0, success |-> FALSE, source |-> "none", data |-> NoRecord,
                 saved |-> FALSE, message |-> "none"]]

NoResearch == ResearchOver({}, TRUE)

\* the completion c of the public operation name
Completed(name, c) == [of |-> name, ok |-> c.ok, val |-> c.val, err |-> c.err]

\* the environment of the process and a session as its constructor leaves
\* it; a route gets as far as constructing the session only when new
\* ConfigManager() has returned
Fresh ==
  /\ env \in EnvInputs
  /\ config = ConfigOf(env)
  /\ commonClient = FALSE
  /\ objectClient = FALSE
  /\ uid = 0
  /\ op = "idle"
  /\ pc = "none"
  /\ frame = NoFrame
  /\ data = <<>>
  /\ i = 0
  /\ results = <<>>
  /\ successfulUpdates = 0
  /\ failedUpdates = 0
  /\ attempted = <<>>
  /\ calls = <<>>
  /\ inflight = {}
  /\ ret = NoRet
  /\ connects = NoConnects

Init ==
  /\ Fresh
  /\ catalog = InitCatalog
  /\ route = NoRoute
  /\ probe = NoProbe
  /\ research = NoResearch
  /\ approval = NoApproval

\* the transport answers call k: it leaves the in-flight set and the answer is
\* noted in the history
Answered(lg, k, reply, rids) == [lg EXCEPT ![k].reply = reply, ![k].rids = rids]

(***************************************************************************)
(* connect (odoo-client.ts 30-68) and callCommon (70-85).                  *)
(***************************************************************************)
\* the identities the authenticate call can return: false/0, or a user id
AuthValues == {0, 7}

\* catch (error) { ...; return false; }
connect_catch(error) == Return(FALSE)

\* mutant: any identity is accepted
AuthenticationFailed_Never(identity) == FALSE

\* if (!this.uid) throw
AuthenticationFailed(identity) == identity = 0

\* callCommon: rejects without a client, else hands the call to the transport
callCommon(lg, fl, method) ==
  IF ~commonClient' THEN [rejected |-> TRUE, calls |-> lg, inflight |-> fl]
  ELSE [rejected |-> FALSE,
        calls |-> Append(lg, Call("common", method, 0, <<>>, <<>>, Num(0))),
        inflight |-> fl \cup {Len(lg) + 1}]

\* connect() up to its first await: new URL, createClient, callCommon('version')
connect_begin ==
  /\ op = "idle"
  /\ UNCHANGED <<env, config, objectClient, uid, catalog, frame, batchVars>>
  /\ IF NewURLThrows(config.url)
     THEN /\ ret' = Completed("connect", connect_catch("Invalid URL"))
          /\ connects' = ConnectReturned(connects, FALSE)
          /\ calls' = <<>>
          /\ inflight' = {}
          /\ UNCHANGED <<commonClient, op, pc>>
     ELSE /\ commonClient' = TRUE
          /\ LET c == callCommon(<<>>, {}, "version")
             IN /\ calls' = c.calls
                /\ inflight' = c.inflight
                /\ IF c.rejected
                   THEN /\ ret' = Completed("connect", connect_catch("not initialized"))
                        /\ connects' = ConnectReturned(connects, FALSE)
                        /\ UNCHANGED <<op, pc>>
                   ELSE /\ ret' = NoRet
                        /\ UNCHANGED connects
                        /\ op' = "connect"
                        /\ pc' = "version"

\* a caller invokes connect() on the session
Connect ==
  /\ connect_begin
  /\ UNCHANGED auxVars

\* new ConfigManager() returned, so the route constructs its session
SessionConstructed == validateConfig(env).ok

\* the 500 response of a route's catch block, with the message of the error
RouteErrorResponse(error) ==
  [status |-> 500, error |-> "Internal server error", details |-> error]

\* a route other than price-compare is requested and new ConfigManager()
\* throws: the catch block of the route answers 500 (price-update 17 and
\* 33-38, product-lookup 22 and 46-54)
RouteConfigFailure ==
  /\ op = "idle" /\ connects = NoConnects
  /\ ~SessionConstructed
  /\ ret' = Completed("route", Return(RouteErrorResponse(validateConfig(env).err)))
  /\ op' = "done"
  /\ UNCHANGED <<auxVars, sessionVars, catalog, pc, frame, batchVars, calls, inflight,
                 connects>>

\* what the version call can settle with: a transport fault, a struct (with
\* or without server_version), or a value with no properties (nil)
VersionReplies == {"fault", "value", "nil"}

\* versionInfo.server_version throws on a value that has no properties
ReadServerVersionThrows(reply) == reply = "nil"

\* the version call settles; on a struct connect goes on to authenticate
VersionReply(k, reply) ==
  /\ op = "connect" /\ pc = "version"
  /\ k \in inflight /\ calls[k].method = "version"
  /\ UNCHANGED <<auxVars, sessionVars, catalog, frame, batchVars>>
  /\ LET lg == Answered(calls, k, reply, <<>>)
         fl == inflight \ {k}
         c == callCommon(lg, fl, "authenticate")
     IN IF reply = "fault" \/ ReadServerVersionThrows(reply) \/ c.rejected
        THEN /\ ret' = Completed("connect", connect_catch("fault"))
             /\ connects' = ConnectReturned(connects, FALSE)
             /\ calls' = lg
             /\ inflight' = fl
             /\ op' = "idle"
             /\ pc' = "none"
        ELSE /\ calls' = c.calls
             /\ inflight' = c.inflight
             /\ pc' = "authenticate"
             /\ UNCHANGED <<op, ret, connects>>

\* the authenticate call settles: this.uid is assigned only when it returned
AuthenticateReply(k, fault, identity) ==
  /\ op = "connect" /\ pc = "authenticate"
  /\ k \in inflight /\ calls[k].method = "authenticate"
  /\ UNCHANGED <<auxVars, env, config, commonClient, catalog, frame, batchVars>>
  /\ calls' = Answered(calls, k, IF fault THEN "fault" ELSE "value", <<identity>>)
  /\ inflight' = inflight \ {k}
  /\ op' = "idle"
  /\ pc' = "none"
  /\ IF fault
     THEN /\ ret' = Completed("connect", connect_catch("fault"))
          /\ connects' = ConnectReturned(connects, FALSE)
          /\ UNCHANGED <<uid, objectClient>>
     ELSE /\ uid' = identity
          /\ IF AuthenticationFailed(identity)
             THEN /\ ret' = Completed("connect", connect_catch("Authentication failed"))
                  /\ connects' = ConnectReturned(connects, FALSE)
                  /\ UNCHANGED objectClient
             ELSE /\ objectClient' = TRUE
                  /\ ret' = Completed("connect", Return(TRUE))
                  /\ connects' = ConnectReturned(connects, TRUE)

(***************************************************************************)
(* callObject (odoo-client.ts 87-111).                                     *)
(***************************************************************************)
\* mutant: the call is handed to the transport whatever the session holds
callObject_NoGuard(lg, fl, c) ==
  [rejected |-> FALSE, calls |-> Append(lg, c), inflight |-> fl \cup {Len(lg) + 1}]

\* if (!this.objectClient || !this.uid) reject, else methodCall('execute_kw')
callObject(lg, fl, c) ==
  IF ~objectClient \/ uid = 0
  THEN [rejected |-> TRUE, calls |-> lg, inflight |-> fl]
  ELSE [rejected |-> FALSE, calls |-> Append(lg, c), inflight |-> fl \cup {Len(lg) + 1}]

(***************************************************************************)
(* updateProductPrice (odoo-client.ts 134-183).  Each operator below is    *)
(* the code between two awaits; it yields the locals, the await reached    *)
(* ("settled" once the promise is settled) and the calls issued.           *)
(***************************************************************************)
\* the row/sequence number added to a batch index (i + 2)
RowOffset == 2

UpdateResult(success, message, count, barcode) ==
  [success |-> success, message |-> message, updated_count |-> count,
   barcode |-> barcode, row_number |-> 0]

At(f, p, lg, fl) == [frame |-> f, pc |-> p, calls |-> lg, inflight |-> fl]

\* mutant: the error is thrown on to the caller
updateProductPrice_rethrow(barcode, error) == Throw(error)

\* catch (error) { return { success: false, message, updated_count: 0, barcode } }
updateProductPrice_catch(barcode, error) ==
  Return(UpdateResult(FALSE, error, 0, barcode))

\* mutant: a single match is taken for none
NoProducts_AtMostOne(productIds) == Len(productIds) <= 1

\* if (!productIds || productIds.length === 0)
NoProducts(productIds) == Len(productIds) = 0

\* the outcome returned when the search found nothing
updateProductPrice_notFound(validatedBarcode) ==
  Return(UpdateResult(FALSE, "No products found", 0, validatedBarcode))

\* the outcome returned after the write
updateProductPrice_updated(productIds, validatedBarcode) ==
  Return(UpdateResult(TRUE, "Updated", Len(productIds), validatedBarcode))

\* mutant: every id up to the last match is written
WriteIds_UpToLast(productIds) == [k \in 1..productIds[Len(productIds)] |-> k]

\* mutant: only the first match is written
WriteIds_FirstOnly(productIds) == <<productIds[1]>>

\* the ids handed to write
WriteIds(productIds) == productIds

\* lines 135-145: validate, then await callObject(search)
updateProductPrice_begin(barcode, newPrice, row, lg, fl) ==
  LET vb == validateBarcode(barcode)
      vp == validatePrice(newPrice)
      f0 == [NoFrame EXCEPT !.barcode = barcode, !.newPrice = newPrice]
  IN IF ~vb.ok
     THEN At([f0 EXCEPT !.result = updateProductPrice_catch(barcode, vb.err)],
             "settled", lg, fl)
     ELSE IF ~vp.ok
     THEN At([f0 EXCEPT !.result = updateProductPrice_catch(barcode, vp.err)],
             "settled", lg, fl)
     ELSE LET f1 == [f0 EXCEPT !.validatedBarcode = vb.val, !.validatedPrice = vp.val]
              c == callObject(lg, fl, Call("object", "search", row, vb.val, <<>>, Num(0)))
          IN IF c.rejected
             THEN At([f1 EXCEPT !.result = updateProductPrice_catch(barcode, "not initialized")],
                     "settled", lg, fl)
             ELSE At(f1, "search", c.calls, c.inflight)

\* lines 145-162: the search settled; not found, or await callObject(write)
updateProductPrice_searched(f, row, fault, productIds, lg, fl) ==
  IF fault
  THEN At([f EXCEPT !.result = updateProductPrice_catch(f.barcode, "fault")],
          "settled", lg, fl)
  ELSE LET f1 == [f EXCEPT !.productIds = productIds]
       IN IF NoProducts(productIds)
          THEN At([f1 EXCEPT !.result = updateProductPrice_notFound(f.validatedBarcode)],
                  "settled", lg, fl)
          ELSE LET c == callObject(lg, fl, Call("object", "write", row, <<>>,
                                                WriteIds(productIds), f.validatedPrice))
               IN IF c.rejected
                  THEN At([f1 EXCEPT !.result =
                             updateProductPrice_catch(f.barcode, "not initialized")],
                          "settled", lg, fl)
                  ELSE At(f1, "write", c.calls, c.inflight)

\* lines 162-182: the write settled
updateProductPrice_written(f, fault, lg, fl) ==
  IF fault
  THEN At([f EXCEPT !.result = updateProductPrice_catch(f.barcode, "fault")],
          "settled", lg, fl)
  ELSE At([f EXCEPT !.result = updateProductPrice_updated(f.productIds, f.validatedBarcode)],
          "settled", lg, fl)

\* the identifiers and prices a caller hands to updateProductPrice
BarcodeInputs == {<<"A">>, <<" ", "A", " ">>, <<"B">>, <<"C">>, <<" ">>, <<>>}
PriceInputs ==
  {Num(500), Num(0), Num(0 - 100), NaN, Str(<<"7">>), Str(<<"7", "x">>), Str(<<"x">>),
   Str(<<"-", "1">>), Null, Bool(TRUE)}

\* price-update route: if (!barcode || price === undefined) -> 400; a JSON
\* body cannot carry undefined, so the price is absent or one of PriceInputs
priceUpdate_badRequest(barcode, price) == barcode = <<>> \/ price.type = "undefined"

\* a caller invokes updateProductPrice(barcode, newPrice) on the session
UpdateProductPrice(barcode, newPrice) ==
  /\ op = "idle"
  /\ LET a == updateProductPrice_begin(barcode, newPrice, 0, <<>>, {})
     IN /\ frame' = a.frame
        /\ pc' = a.pc
        /\ calls' = a.calls
        /\ inflight' = a.inflight
  /\ op' = "update"
  /\ ret' = NoRet
  /\ UNCHANGED <<connects, auxVars, sessionVars, catalog, batchVars>>

\* the transport answers the search of updateProductPrice
SearchReply(k, fault) ==
  /\ op \in {"update", "batch"} /\ pc = "search"
  /\ k \in inflight /\ calls[k].method = "search"
  /\ LET found == IF fault THEN <<>> ELSE RemoteSearch(catalog, calls[k].barcode)
         lg == Answered(calls, k, IF fault THEN "fault" ELSE "value", found)
         a == updateProductPrice_searched(frame, calls[k].row, fault, found, lg,
                                          inflight \ {k})
     IN /\ frame' = a.frame
        /\ pc' = a.pc
        /\ calls' = a.calls
        /\ inflight' = a.inflight
  /\ UNCHANGED <<connects, auxVars, sessionVars, catalog, op, batchVars, ret>>

\* the transport answers the write of updateProductPrice; a write that faults
\* may or may not have been applied by the remote, a write that returns is
\* applied exactly when its acknowledgement is true (1 on the wire, 0 for
\* false)
WriteReply(k, fault, applied, ack) ==
  /\ op \in {"update", "batch"} /\ pc = "write"
  /\ k \in inflight /\ calls[k].method = "write"
  /\ IF fault THEN ~ack ELSE applied = ack
  /\ catalog' = IF applied THEN RemoteWrite(catalog, calls[k].ids, calls[k].price)
                ELSE catalog
  /\ LET lg == Answered(calls, k, IF fault THEN "fault" ELSE "value",
                        IF fault THEN <<>> ELSE IF ack THEN <<1>> ELSE <<0>>)
         a == updateProductPrice_written(frame, fault, lg, inflight \ {k})
     IN /\ frame' = a.frame
        /\ pc' = a.pc
        /\ calls' = a.calls
        /\ inflight' = a.inflight
  /\ UNCHANGED <<connects, auxVars, sessionVars, op, batchVars, ret>>

\* await updater.updateProductPrice(...) of a single update resumes
UpdateReturn ==
  /\ op = "update" /\ pc = "settled"
  /\ ret' = Completed("update", frame.result)
  /\ op' = "done"
  /\ pc' = "none"
  /\ UNCHANGED <<connects, auxVars, sessionVars, catalog, frame, batchVars, calls, inflight>>

(***************************************************************************)
(* batchUpdateFromData (odoo-client.ts 185-226).                           *)
(***************************************************************************)
\* the requests a batch is made of
BatchRows ==
  {[barcode |-> <<"A">>, price |-> Num(500)],
   [barcode |-> <<" ", "A", " ">>, price |-> Str(<<"7">>)],
   [barcode |-> <<"B">>, price |-> Num(0)],
   [barcode |-> <<"C">>, price |-> Num(500)],
   [barcode |-> <<" ">>, price |-> Num(500)],
   [barcode |-> <<>>, price |-> Str(<<"7">>)],
   [barcode |-> <<"A">>, price |-> Num(0 - 100)],
   [barcode |-> <<"B">>, price |-> Str(<<"x">>)]}

Batches == UNION {[1..n -> BatchRows] : n \in 0..MaxBatch}

\* mutant: the last request is left out
LoopContinues_SkipLast(idx, d) == idx < Len(d) - 1

\* for (...; i < data.length; ...)
LoopContinues(idx, d) == idx < Len(d)

\* mutant: the loop is left at the first failed outcome
NextIndex_AbortOnFailure(idx, outcome, d) == IF outcome.success THEN idx + 1 ELSE Len(d)

\* i++
NextIndex(idx, outcome, d) == idx + 1

\* mutant: the loop goes on without waiting for the promise to settle
AwaitSettled_NoAwait(p) == p # "loop"

\* const result = await this.updateProductPrice(...): the loop body resumes
\* once the promise is settled
AwaitSettled(p) == p = "settled"

\* mutant: the row number counts from 1, without the header row
batch_outcome_NoHeader(c, idx, item) ==
  IF c.ok
  THEN [c.val EXCEPT !.row_number = idx + 1]
  ELSE [success |-> FALSE, message |-> "Row error", updated_count |-> 0,
        barcode |-> IF item.barcode = <<>> THEN <<"N", "/", "A">> ELSE item.barcode,
        row_number |-> idx + 1]

\* lines 196 and 205-212: the outcome pushed for row idx, from the completion
\* c of updateProductPrice
batch_outcome(c, idx, item) ==
  IF c.ok
  THEN [c.val EXCEPT !.row_number = idx + RowOffset]
  ELSE [success |-> FALSE, message |-> "Row error", updated_count |-> 0,
        barcode |-> IF item.barcode = <<>> THEN <<"N", "/", "A">> ELSE item.barcode,
        row_number |-> idx + RowOffset]

\* lines 198-202 and 214: the counters after the outcome of a row
batch_successful(n, c) == IF c.ok /\ c.val.success THEN n + 1 ELSE n
\* mutant: failedUpdates counts only the rows whose update threw
batch_failed_OnlyThrown(n, c) == IF c.ok THEN n ELSE n + 1

batch_failed(n, c) == IF c.ok /\ c.val.success THEN n ELSE n + 1

\* lines 220-225
BatchResult(ok, ko, res) ==
  [successful_updates |-> ok, failed_updates |-> ko, total_processed |-> Len(res),
   results |-> res]

\* a caller invokes batchUpdateFromData(d)
BatchUpdateFromData(d) ==
  /\ op = "idle"
  /\ op' = "batch"
  /\ pc' = "loop"
  /\ data' = d
  /\ i' = 0
  /\ results' = <<>>
  /\ successfulUpdates' = 0
  /\ failedUpdates' = 0
  /\ attempted' = <<>>
  /\ frame' = NoFrame
  /\ calls' = <<>>
  /\ inflight' = {}
  /\ ret' = NoRet
  /\ UNCHANGED <<connects, auxVars, sessionVars, catalog>>

\* the loop body up to its await: updateProductPrice(item.barcode, item.price)
BatchDispatch ==
  /\ op = "batch" /\ pc = "loop"
  /\ LoopContinues(i, data)
  /\ attempted' = Append(attempted, i)
  /\ LET item == data[i + 1]
         a == updateProductPrice_begin(item.barcode, item.price, i, calls, inflight)
     IN /\ frame' = a.frame
        /\ pc' = a.pc
        /\ calls' = a.calls
        /\ inflight' = a.inflight
  /\ UNCHANGED <<connects, auxVars, sessionVars, catalog, op, data, i, results, successfulUpdates,
                 failedUpdates, ret>>

\* the rest of the loop body: row number, counters, push, i++
BatchRecord ==
  /\ op = "batch" /\ AwaitSettled(pc)
  /\ LoopContinues(i, data)
  /\ LET c == frame.result
         outcome == batch_outcome(c, i, data[i + 1])
     IN /\ results' = Append(results, outcome)
        /\ successfulUpdates' = batch_successful(successfulUpdates, c)
        /\ failedUpdates' = batch_failed(failedUpdates, c)
        /\ i' = NextIndex(i, outcome, data)
  /\ pc' = "loop"
  /\ UNCHANGED <<connects, auxVars, sessionVars, catalog, op, frame, data, attempted, calls, inflight, ret>>

\* the loop is over: return the BatchResult
BatchReturn ==
  /\ op = "batch" /\ pc = "loop"
  /\ ~LoopContinues(i, data)
  /\ ret' = Completed("batch", Return(BatchResult(successfulUpdates, failedUpdates, results)))
  /\ op' = "done"
  /\ pc' = "none"
  /\ UNCHANGED <<connects, auxVars, sessionVars, catalog, frame, batchVars, calls, inflight>>

(***************************************************************************)
(* lookupProduct (odoo-client.ts 228-290).                                 *)
(***************************************************************************)
LookupResult(success, product, message) ==
  [success |-> success, product |-> product, message |-> message]

\* catch (error) { return { success: false, message } }
lookupProduct_catch(error) == Return(LookupResult(FALSE, <<>>, error))

\* mutant: the last entity read is projected
lookupProduct_found_Last(products) ==
  LET product == products[Len(products)]
  IN Return(LookupResult(TRUE,
       [id |-> product.id, name |-> product.name, barcode |-> product.barcode,
        list_price |-> product.list_price, default_code |-> product.default_code,
        categ_id |-> product.categ_id], "none"))

\* lines 264-274: the projection of products[0]
lookupProduct_found(products) ==
  LET product == products[1]
  IN Return(LookupResult(TRUE,
       [id |-> product.id, name |-> product.name, barcode |-> product.barcode,
        list_price |-> product.list_price, default_code |-> product.default_code,
        categ_id |-> product.categ_id], "none"))

\* lines 229-237: validate, then await callObject(search)
lookupProduct_begin(barcode) ==
  LET vb == validateBarcode(barcode)
      f0 == [NoFrame EXCEPT !.barcode = barcode]
  IN IF ~vb.ok
     THEN At([f0 EXCEPT !.result = lookupProduct_catch(vb.err)], "settled", <<>>, {})
     ELSE LET f1 == [f0 EXCEPT !.validatedBarcode = vb.val]
              c == callObject(<<>>, {}, Call("object", "search", 0, vb.val, <<>>, Num(0)))
          IN IF c.rejected
             THEN At([f1 EXCEPT !.result = lookupProduct_catch("not initialized")],
                     "settled", <<>>, {})
             ELSE At(f1, "search", c.calls, c.inflight)

\* mutant: the entities found are written instead of read
lookupProduct_searched_Writes(f, fault, productIds, lg, fl) ==
  IF fault
  THEN At([f EXCEPT !.result = lookupProduct_catch("fault")], "settled", lg, fl)
  ELSE LET f1 == [f EXCEPT !.productIds = productIds]
       IN IF NoProducts(productIds)
          THEN At([f1 EXCEPT !.result =
                     Return(LookupResult(FALSE, <<>>, "No products found"))],
                  "settled", lg, fl)
          ELSE LET c == callObject(lg, fl, Call("object", "write", 0, <<>>, productIds,
                                                Num(0)))
               IN IF c.rejected
                  THEN At([f1 EXCEPT !.result = lookupProduct_catch("not initialized")],
                          "settled", lg, fl)
                  ELSE At(f1, "write", c.calls, c.inflight)

\* lines 237-251: the search settled; not found, or await callObject(read)
lookupProduct_searched(f, fault, productIds, lg, fl) ==
  IF fault
  THEN At([f EXCEPT !.result = lookupProduct_catch("fault")], "settled", lg, fl)
  ELSE LET f1 == [f EXCEPT !.productIds = productIds]
       IN IF NoProducts(productIds)
          THEN At([f1 EXCEPT !.result =
                     Return(LookupResult(FALSE, <<>>, "No products found"))],
                  "settled", lg, fl)
          ELSE LET c == callObject(lg, fl, Call("object", "read", 0, <<>>, productIds,
                                                Num(0)))
               IN IF c.rejected
                  THEN At([f1 EXCEPT !.result = lookupProduct_catch("not initialized")],
                          "settled", lg, fl)
                  ELSE At(f1, "read", c.calls, c.inflight)

\* lines 251-289: the read settled
lookupProduct_read(f, fault, products, lg, fl) ==
  IF fault
  THEN At([f EXCEPT !.result = lookupProduct_catch("fault")], "settled", lg, fl)
  ELSE IF Len(products) > 0
  THEN At([f EXCEPT !.result = lookupProduct_found(products)], "settled", lg, fl)
  ELSE At([f EXCEPT !.result =
             Return(LookupResult(FALSE, <<>>, "Product data could not be retrieved"))],
          "settled", lg, fl)

\* a caller invokes lookupProduct(barcode)
LookupProduct(barcode) ==
  /\ op = "idle"
  /\ LET a == lookupProduct_begin(barcode)
     IN /\ frame' = a.frame
        /\ pc' = a.pc
        /\ calls' = a.calls
        /\ inflight' = a.inflight
  /\ op' = "lookup"
  /\ ret' = NoRet
  /\ UNCHANGED <<connects, auxVars, sessionVars, catalog, batchVars>>

\* the transport answers the search of lookupProduct
LookupSearchReply(k, fault) ==
  /\ op = "lookup" /\ pc = "search"
  /\ k \in inflight /\ calls[k].method = "search"
  /\ LET found == IF fault THEN <<>> ELSE RemoteSearch(catalog, calls[k].barcode)
         lg == Answered(calls, k, IF fault THEN "fault" ELSE "value", found)
         a == lookupProduct_searched(frame, fault, found, lg, inflight \ {k})
     IN /\ frame' = a.frame
        /\ pc' = a.pc
        /\ calls' = a.calls
        /\ inflight' = a.inflight
  /\ UNCHANGED <<connects, auxVars, sessionVars, catalog, op, batchVars, ret>>

\* the transport answers the read of lookupProduct
ReadReply(k, fault) ==
  /\ op = "lookup" /\ pc = "read"
  /\ k \in inflight /\ calls[k].method = "read"
  /\ LET products == IF fault THEN <<>> ELSE RemoteRead(catalog, calls[k].ids)
         lg == Answered(calls, k, IF fault THEN "fault" ELSE "value", calls[k].ids)
         a == lookupProduct_read(frame, fault, products, lg, inflight \ {k})
     IN /\ frame' = a.frame
        /\ pc' = a.pc
        /\ calls' = a.calls
        /\ inflight' = a.inflight
  /\ UNCHANGED <<connects, auxVars, sessionVars, catalog, op, batchVars, ret>>

\* await updater.lookupProduct(...) resumes
LookupReturn ==
  /\ op = "lookup" /\ pc = "settled"
  /\ ret' = Completed("lookup", frame.result)
  /\ op' = "done"
  /\ pc' = "none"
  /\ UNCHANGED <<connects, auxVars, sessionVars, catalog, frame, batchVars, calls, inflight>>

(***************************************************************************)
(* The price-compare route (part_004, POST): the rows of the uploaded      *)
(* price list are filtered, the catalog is loaded with one search_read on  *)
(* a session of the route's own, every retained row is compared with the   *)
(* entity of its barcode, and the comparisons are sorted and counted.      *)
(***************************************************************************)
\* longest price list handed to the route
MaxRows == 3

\* 'Inventory Part'
InventoryPart == <<"I", "n", "v", "e", "n", "t", "o", "r", "y", " ", "P", "a", "r", "t">>

\* row[col]?.trim(): undefined when the row has no such column
TrimmedField(row, col) ==
  IF col \in DOMAIN row THEN [defined |-> TRUE, s |-> Trim(row[col])]
  ELSE [defined |-> FALSE, s |-> <<>>]

\* lines 52-62: the predicate of the filter
IsInventoryRow(row) ==
  LET type == TrimmedField(row, "Type")
      barcode == TrimmedField(row, "Item")
      price == TrimmedField(row, "Price")
  IN /\ type.defined /\ type.s = InventoryPart
     /\ barcode.defined /\ barcode.s # <<>>
     /\ Len(barcode.s) > 0
     /\ price.defined /\ price.s # <<>>
     /\ ~IsNaNJS(ParseFloat(price.s))

\* lines 63-67: a retained row as {barcode, description, price}
ToQuickbooksProduct(row) ==
  [barcode |-> Trim(row["Item"]),
   description |-> TrimmedField(row, "Description").s,
   price |-> ParseFloat(Trim(row["Price"]))]

\* lines 51-67: parseResult.data.filter(...).map(...)
quickbooksProductsOf(rows) ==
  LET kept == SelectSeq(rows, IsInventoryRow)
  IN [k \in 1..Len(kept) |-> ToQuickbooksProduct(kept[k])]

Reverse(s) == [k \in 1..Len(s) |-> s[Len(s) + 1 - k]]

\* the orders in which the remote lists the catalog: by ascending or by
\* descending id
ResultOrders(cat) == {SortedSeq(DOMAIN cat), Reverse(SortedSeq(DOMAIN cat))}

\* product.template search_read of id, name, barcode, list_price,
\* default_code over the empty domain, listed in the given order
RemoteSearchRead(cat, order) ==
  [k \in 1..Len(order) |->
     [id |-> order[k], name |-> cat[order[k]].name, barcode |-> cat[order[k]].barcode,
      list_price |-> cat[order[k]].list_price,
      default_code |-> cat[order[k]].default_code]]

\* p => p.barcode: an entity without barcode carries false
HasBarcode(p) == p.barcode # <<>>

\* mutant: the first entry of a key is kept
RECURSIVE MapOf_FirstWins(_)
MapOf_FirstWins(entries) ==
  IF entries = <<>> THEN <<>>
  ELSE LET p == entries[Len(entries)]
       IN MapOf_FirstWins(SubSeq(entries, 1, Len(entries) - 1)) @@ (p.barcode :> p)

\* new Map(entries): a later entry replaces an earlier one of the same key
RECURSIVE MapOf(_)
MapOf(entries) ==
  IF entries = <<>> THEN <<>>
  ELSE LET p == entries[Len(entries)]
       IN (p.barcode :> p) @@ MapOf(SubSeq(entries, 1, Len(entries) - 1))

\* lines 96-100: the map from barcode to entity
odooProductMapOf(odooProducts) == MapOf(SelectSeq(odooProducts, HasBarcode))

Abs(n) == IF n < 0 THEN 0 - n ELSE n

\* a quotient of two numbers, kept exact
Ratio(n, d) == [num |-> n, den |-> d]

\* 0.01, in hundredths
MatchTolerance == 1

\* mutant: a row without entity is compared with a price of zero
NotFoundComparison_ZeroPrice(qbProduct) ==
  [barcode |-> qbProduct.barcode, itemCode |-> qbProduct.barcode,
   description |-> qbProduct.description, odooPrice |-> Num(0),
   quickbooksPrice |-> qbProduct.price, priceDifference |-> qbProduct.price,
   percentChange |-> Ratio(0, 1), status |-> "increase"]

\* lines 109-119: the comparison of a row whose barcode is not in the map
NotFoundComparison(qbProduct) ==
  [barcode |-> qbProduct.barcode, itemCode |-> qbProduct.barcode,
   description |-> qbProduct.description, odooPrice |-> Null,
   quickbooksPrice |-> qbProduct.price, priceDifference |-> qbProduct.price,
   percentChange |-> Ratio(0, 1), status |-> "not_found_in_odoo"]

\* mutant: the change is taken relative to the proposed price
percentChangeOf_OfProposed(difference, odooPrice) ==
  IF odooPrice > 0 THEN Ratio(difference * 100, odooPrice + difference) ELSE Ratio(0, 1)

\* line 124: odooPrice > 0 ? (difference / odooPrice) * 100 : 0
percentChangeOf(difference, odooPrice) ==
  IF odooPrice > 0 THEN Ratio(difference * 100, odooPrice) ELSE Ratio(0, 1)

\* mutant: a difference of either sign is an increase
statusOf_NoDecrease(difference) ==
  IF Abs(difference) < MatchTolerance THEN "match" ELSE "increase"

\* lines 126-133
statusOf(difference) ==
  IF Abs(difference) < MatchTolerance THEN "match"
  ELSE IF difference > 0 THEN "increase"
  ELSE "decrease"

\* lines 105-147: the comparison of one retained row
Comparison(qbProduct, odooProductMap) ==
  IF qbProduct.barcode \notin DOMAIN odooProductMap
  THEN NotFoundComparison(qbProduct)
  ELSE LET odooProduct == odooProductMap[qbProduct.barcode]
           difference == qbProduct.price.v - odooProduct.list_price.v
       IN [barcode |-> qbProduct.barcode, itemCode |-> qbProduct.barcode,
           description |-> qbProduct.description, odooPrice |-> odooProduct.list_price,
           quickbooksPrice |-> qbProduct.price, priceDifference |-> Num(difference),
           percentChange |-> percentChangeOf(difference, odooProduct.list_price.v),
           status |-> statusOf(difference), odooProductId |-> odooProduct.id,
           odooProductName |-> odooProduct.name]

\* quickbooksProducts.map(...)
comparisonsOf(quickbooksProducts, odooProductMap) ==
  [k \in 1..Len(quickbooksProducts) |-> Comparison(quickbooksProducts[k], odooProductMap)]

\* lines 149-155
statusPriority ==
  [not_found_in_odoo |-> 1, decrease |-> 2, increase |-> 3, match |-> 4, new |-> 5]

\* mutant: within a status the smaller difference comes first
compareFn_AscendingDifference(a, b) ==
  LET priorityDiff == statusPriority[a.status] - statusPriority[b.status]
  IN IF priorityDiff # 0 THEN priorityDiff
     ELSE Abs(a.priceDifference.v) - Abs(b.priceDifference.v)

\* lines 157-161: the comparator handed to sort
compareFn(a, b) ==
  LET priorityDiff == statusPriority[a.status] - statusPriority[b.status]
  IN IF priorityDiff # 0 THEN priorityDiff
     ELSE Abs(b.priceDifference.v) - Abs(a.priceDifference.v)

\* comparisons.sort(compareFn): Array.prototype.sort is stable, so an element
\* goes behind every element that does not compare greater
RECURSIVE SortComparisons(_)
SortComparisons(cs) ==
  IF cs = <<>> THEN <<>>
  ELSE LET sorted == SortComparisons(SubSeq(cs, 1, Len(cs) - 1))
           x == cs[Len(cs)]
           p == Cardinality({k \in 1..Len(sorted) : compareFn(sorted[k], x) <= 0})
       IN SubSeq(sorted, 1, p) \o <<x>> \o SubSeq(sorted, p + 1, Len(sorted))

\* mutant: equal items are counted once
CountStatus_Distinct(cs, status) ==
  Cardinality({cs[k] : k \in {j \in 1..Len(cs) : cs[j].status = status}})

\* comparisons.filter(c => c.status === status).length
CountStatus(cs, status) == Cardinality({k \in 1..Len(cs) : cs[k].status = status})

\* lines 164-170
summaryOf(cs) ==
  [total |-> Len(cs), matches |-> CountStatus(cs, "match"),
   increases |-> CountStatus(cs, "increase"), decreases |-> CountStatus(cs, "decrease"),
   notFoundInOdoo |-> CountStatus(cs, "not_found_in_odoo")]

\* lines 174-178: the response of a comparison that ran
OkResponse(summary, cs) ==
  [status |-> 200, success |-> TRUE, error |-> "none", summary |-> summary,
   comparisons |-> cs]

\* lines 77-80 and 180-186: the responses of a comparison that did not run
ErrorResponse(error) ==
  [status |-> 500, success |-> FALSE, error |-> error, summary |-> summaryOf(<<>>),
   comparisons |-> <<>>]

\* the rows of an uploaded price list: an inventory row with white space
\* around its barcode, one with a fraction, one with a negative price, one
\* whose price goes on after its numeral and whose barcode no entity carries,
\* a row of another type, a row with a blank barcode, a row whose price is
\* no number, a row without a Price column, and a row that no entity carries
\* either, with the same price under another description
RowInputs ==
  {[Type |-> InventoryPart, Item |-> <<" ", "A", " ">>, Price |-> <<"1", "2">>,
    Description |-> <<" ", "d">>],
   [Type |-> InventoryPart, Item |-> <<"B">>, Price |-> <<"1", "3", ".", "5">>,
    Description |-> <<>>],
   [Type |-> <<" ">> \o InventoryPart, Item |-> <<"B">>, Price |-> <<"-", "5">>],
   [Type |-> InventoryPart, Item |-> <<"C">>, Price |-> <<"7", "x">>,
    Description |-> <<"d">>],
   [Type |-> <<"S">>, Item |-> <<"A">>, Price |-> <<"1", "2">>, Description |-> <<"d">>],
   [Type |-> InventoryPart, Item |-> <<" ">>, Price |-> <<"1", "2">>,
    Description |-> <<"d">>],
   [Type |-> InventoryPart, Item |-> <<"A">>, Price |-> <<"x">>, Description |-> <<"d">>],
   [Type |-> InventoryPart, Item |-> <<"A">>],
   [Type |-> InventoryPart, Item |-> <<"C">>, Price |-> <<"7">>,
    Description |-> <<"e">>]}

RowLists == UNION {[1..n -> RowInputs] : n \in 0..MaxRows}

\* POST, lines 51-75 and 180-186: the rows are filtered; when new
\* ConfigManager() throws the catch block answers 500, else a session is
\* created and its connect is awaited
PriceCompare(rows) ==
  /\ route.pc = "none"
  /\ connects = NoConnects
  /\ op = "idle"
  /\ IF ~SessionConstructed
     THEN /\ route' = [NoRoute EXCEPT !.pc = "done", !.rows = rows,
                                      !.quickbooksProducts = quickbooksProductsOf(rows)]
          /\ ret' = Completed("compare", Return(ErrorResponse("Failed to compare prices")))
          /\ op' = "done"
          /\ UNCHANGED <<sessionVars, catalog, pc, frame, batchVars, calls, inflight,
                         connects>>
     ELSE /\ route' = [NoRoute EXCEPT !.pc = "connect", !.rows = rows,
                                      !.quickbooksProducts = quickbooksProductsOf(rows)]
          /\ connect_begin
  /\ UNCHANGED <<probe, research, approval>>

\* lines 75-93: connect returned; on false the route answers 500, on true it
\* awaits callObject(search_read)
PriceCompareConnected ==
  /\ route.pc = "connect" /\ op = "idle" /\ ret.of = "connect"
  /\ LET c == callObject(<<>>, {}, Call("object", "search_read", 0, <<>>, <<>>, Num(0)))
     IN IF ~ret.val
        THEN /\ ret' = Completed("compare", Return(ErrorResponse("Failed to connect to Odoo")))
             /\ route' = [route EXCEPT !.pc = "done"]
             /\ op' = "done"
             /\ calls' = <<>>
             /\ inflight' = {}
        ELSE IF c.rejected
        THEN /\ ret' = Completed("compare", Return(ErrorResponse("Failed to compare prices")))
             /\ route' = [route EXCEPT !.pc = "done"]
             /\ op' = "done"
             /\ calls' = <<>>
             /\ inflight' = {}
        ELSE /\ ret' = NoRet
             /\ route' = [route EXCEPT !.pc = "search_read"]
             /\ op' = "compare"
             /\ calls' = c.calls
             /\ inflight' = c.inflight
  /\ UNCHANGED <<sessionVars, connects, catalog, pc, frame, batchVars, probe, research,
                 approval>>

\* lines 93-186: the search_read settled; on a fault the route answers 500,
\* else it builds the map, compares, sorts, counts and answers
SearchReadReply(k, fault, order) ==
  /\ op = "compare" /\ route.pc = "search_read"
  /\ k \in inflight /\ calls[k].method = "search_read"
  /\ calls' = Answered(calls, k, IF fault THEN "fault" ELSE "value",
                       IF fault THEN <<>> ELSE order)
  /\ inflight' = inflight \ {k}
  /\ op' = "done"
  /\ IF fault
     THEN /\ ret' = Completed("compare", Return(ErrorResponse("Failed to compare prices")))
          /\ route' = [route EXCEPT !.pc = "done"]
     ELSE LET odooProducts == RemoteSearchRead(catalog, order)
              odooProductMap == odooProductMapOf(odooProducts)
              comparisons == comparisonsOf(route.quickbooksProducts, odooProductMap)
              sorted == SortComparisons(comparisons)
          IN /\ ret' = Completed("compare", Return(OkResponse(summaryOf(sorted), sorted)))
             /\ route' = [route EXCEPT !.pc = "done", !.odooProducts = odooProducts,
                                       !.odooProductMap = odooProductMap,
                                       !.comparisons = comparisons]
  /\ UNCHANGED <<sessionVars, connects, catalog, pc, frame, batchVars, probe, research,
                 approval>>

(***************************************************************************)
(* The specification.                                                      *)
(***************************************************************************)
\* the steps of the routes, of the session and of the transport, with the
\* batches a caller hands over drawn from B and the price lists uploaded drawn
\* from R; a session exists only when new ConfigManager() returned, and the
\* session the price-compare route creates is used by the route alone
NextOver(B, R) ==
  \/ /\ route.pc = "none"
     /\ RouteConfigFailure
  \/ /\ route.pc = "none" /\ SessionConstructed
     /\ Connect
  \/ \E k \in inflight, reply \in VersionReplies : VersionReply(k, reply)
  \/ \E k \in inflight, fault \in BOOLEAN, identity \in AuthValues :
       AuthenticateReply(k, fault, identity)
  \/ /\ op = "idle" /\ route.pc = "none" /\ SessionConstructed
     /\ \E barcode \in BarcodeInputs, newPrice \in PriceInputs :
          UpdateProductPrice(barcode, newPrice)
  \/ \E k \in inflight, fault \in BOOLEAN : SearchReply(k, fault)
  \/ \E k \in inflight, fault, applied, ack \in BOOLEAN : WriteReply(k, fault, applied, ack)
  \/ UpdateReturn
  \/ /\ op = "idle" /\ route.pc = "none" /\ SessionConstructed
     /\ \E d \in B : BatchUpdateFromData(d)
  \/ BatchDispatch
  \/ BatchRecord
  \/ BatchReturn
  \/ /\ op = "idle" /\ route.pc = "none" /\ SessionConstructed
     /\ \E barcode \in BarcodeInputs : LookupProduct(barcode)
  \/ \E k \in inflight, fault \in BOOLEAN : LookupSearchReply(k, fault)
  \/ \E k \in inflight, fault \in BOOLEAN : ReadReply(k, fault)
  \/ LookupReturn
  \/ /\ op = "idle" /\ route.pc = "none" /\ connects = NoConnects
     /\ \E rows \in R : PriceCompare(rows)
  \/ PriceCompareConnected
  \/ \E k \in inflight, fault \in BOOLEAN, order \in ResultOrders(catalog) :
       SearchReadReply(k, fault, order)

Next == NextOver(Batches, RowLists)

Spec == Init /\ [][Next]_vars

(***************************************************************************)
(* The price-compare route on its own, over catalogs whose prices are      *)
(* positive, zero and negative.                                            *)
(***************************************************************************)
\* the catalog with list prices from -6.00 upwards in steps of 6.00: the
\* entities of barcode "A" cost -6.00 and 0.00
SkewCatalog ==
  [id \in ProductIds |-> [InitCatalog[id] EXCEPT !.list_price = Num(600 * (id - 2))]]

ReconCatalogs == {InitCatalog, SkewCatalog}

\* the environments of the route on its own: complete, or empty
ReconEnvs ==
  {e \in EnvInputs : validateConfig(e).ok \/ (~e.ODOO_DB.defined /\ ~e.ODOO_PASSWORD.defined)}

ReconInit ==
  /\ Fresh
  /\ env \in ReconEnvs
  /\ catalog \in ReconCatalogs
  /\ route = NoRoute
  /\ probe = NoProbe
  /\ research = NoResearch
  /\ approval = NoApproval

ReconNext ==
  \/ /\ op = "idle" /\ route.pc = "none" /\ connects = NoConnects
     /\ \E rows \in RowLists : PriceCompare(rows)
  \/ \E k \in inflight, reply \in VersionReplies : VersionReply(k, reply)
  \/ \E k \in inflight, fault \in BOOLEAN, identity \in AuthValues :
       AuthenticateReply(k, fault, identity)
  \/ PriceCompareConnected
  \/ \E k \in inflight, fault \in BOOLEAN, order \in ResultOrders(catalog) :
       SearchReadReply(k, fault, order)

ReconSpec == ReconInit /\ [][ReconNext]_vars

(***************************************************************************)
(* The approve route (part_002 14-65, POST) after a comparison: the        *)
(* browser holds the comparisons of the price-compare route, posts the     *)
(* ones to apply as { barcode, newPrice } and compares the same price list *)
(* again.  Every request constructs its own session.                       *)
(***************************************************************************)
\* the price lists that are compared, approved and compared again: two
\* identifiers of the catalog, one of them with three prices, one negative,
\* and an identifier the catalog does not hold
ConvergeRows ==
  {[Type |-> InventoryPart, Item |-> <<" ", "A", " ">>, Price |-> <<"1", "2">>,
    Description |-> <<" ", "d">>],
   [Type |-> InventoryPart, Item |-> <<"B">>, Price |-> <<"1", "3", ".", "5">>,
    Description |-> <<>>],
   [Type |-> InventoryPart, Item |-> <<"B">>, Price |-> <<"7">>, Description |-> <<>>],
   [Type |-> InventoryPart, Item |-> <<"B">>, Price |-> <<"-", "5">>, Description |-> <<>>],
   [Type |-> InventoryPart, Item |-> <<"C">>, Price |-> <<"7">>, Description |-> <<"e">>]}

ConvergeRowLists == UNION {[1..n -> ConvergeRows] : n \in 1..MaxRows}

\* return NextResponse.json(...): the handler has answered, its session
\* object and its locals are garbage and the next request constructs its own
HandlerLocalsGone ==
  /\ commonClient' = FALSE
  /\ objectClient' = FALSE
  /\ uid' = 0
  /\ op' = "idle"
  /\ pc' = "none"
  /\ frame' = NoFrame
  /\ data' = <<>>
  /\ i' = 0
  /\ results' = <<>>
  /\ successfulUpdates' = 0
  /\ failedUpdates' = 0
  /\ attempted' = <<>>
  /\ calls' = <<>>
  /\ inflight' = {}
  /\ ret' = NoRet
  /\ connects' = NoConnects
  /\ route' = NoRoute
  /\ UNCHANGED <<env, config, catalog, probe, research>>

\* the price-compare route answered with comparisons: the browser holds them
CompareAnswered ==
  /\ approval.pc = "none"
  /\ op = "done" /\ ret.of = "compare" /\ ret.val.success
  /\ approval' = [approval EXCEPT !.pc = "compared", !.rows = route.rows,
                                  !.first = route.comparisons]
  /\ HandlerLocalsGone

\* the comparisons that propose a change of price
Approvable(cs) == {k \in 1..Len(cs) : cs[k].status \in {"increase", "decrease"}}

\* the bodies that submit every comparison classified increase or decrease
\* as (identifier, proposed price), in any order
ApprovedUpdates(cs) ==
  LET K == Approvable(cs)
      n == Cardinality(K)
  IN {[j \in 1..n |-> [barcode |-> cs[f[j]].barcode, newPrice |-> cs[f[j]].quickbooksPrice]] :
        f \in {g \in [1..n -> K] : \A a, b \in 1..n : a # b => g[a] # g[b]}}

\* lines 38-43: body.updates.map(u => ({ barcode: u.barcode, price: u.newPrice }))
approve_batchOf(updates) ==
  [k \in 1..Len(updates) |-> [barcode |-> updates[k].barcode, price |-> updates[k].newPrice]]

\* lines 14-30: POST with body { updates }; no updates is answered 400, a
\* ConfigManager that throws 500, else the session is created and its connect
\* is awaited
PriceApprove(updates) ==
  /\ approval.pc = "compared" /\ op = "idle"
  /\ IF Len(updates) = 0 \/ ~SessionConstructed
     THEN /\ approval' = [approval EXCEPT !.pc = "approved", !.updates = updates,
                                         !.status = IF Len(updates) = 0 THEN 400 ELSE 500]
          /\ UNCHANGED <<sessionVars, catalog, op, pc, frame, batchVars, calls, inflight,
                         ret, connects>>
     ELSE /\ approval' = [approval EXCEPT !.pc = "connect", !.updates = updates]
          /\ connect_begin
  /\ UNCHANGED <<route, probe, research>>

\* lines 30-43: connect returned; on false the route answers 500, on true it
\* awaits batchUpdateFromData
PriceApproveConnected ==
  /\ approval.pc = "connect" /\ op = "idle" /\ ret.of = "connect"
  /\ IF ~ret.val
     THEN /\ approval' = [approval EXCEPT !.pc = "approved", !.status = 500]
          /\ UNCHANGED <<sessionVars, catalog, op, pc, frame, batchVars, calls, inflight,
                         ret, connects, route, probe, research>>
     ELSE BatchUpdateFromData(approve_batchOf(approval.updates))

\* lines 45-56: batchUpdateFromData returned and the route answers 200
PriceApproveReturn ==
  /\ approval.pc = "connect" /\ op = "done" /\ ret.of = "batch"
  /\ approval' =
       [approval EXCEPT
          !.pc = "approved", !.status = 200, !.submitted = TRUE,
          !.faulted = \E k \in 1..Len(calls) : calls[k].reply = "fault",
          !.acknowledged = \A k \in 1..Len(calls) :
                              calls[k].method = "write" =>
                                calls[k].reply = "value" /\ calls[k].rids = <<1>>]
  /\ HandlerLocalsGone

ConvergeInit ==
  /\ Fresh
  /\ validateConfig(env).ok /\ ~NewURLThrows(config.url)
  /\ catalog = InitCatalog
  /\ route = NoRoute
  /\ probe = NoProbe
  /\ research = NoResearch
  /\ approval = NoApproval

ConvergeNext ==
  \/ /\ op = "idle" /\ route.pc = "none" /\ connects = NoConnects /\ approval.pc = "none"
     /\ \E rows \in ConvergeRowLists : PriceCompare(rows)
  \/ \E k \in inflight, reply \in VersionReplies : VersionReply(k, reply)
  \/ \E k \in inflight, fault \in BOOLEAN, identity \in AuthValues :
       AuthenticateReply(k, fault, identity)
  \/ PriceCompareConnected
  \/ \E k \in inflight, fault \in BOOLEAN, order \in ResultOrders(catalog) :
       SearchReadReply(k, fault, order)
  \/ CompareAnswered
  \/ /\ approval.pc = "compared" /\ op = "idle"
     /\ \E updates \in ApprovedUpdates(approval.first) : PriceApprove(updates)
  \/ PriceApproveConnected
  \/ BatchDispatch
  \/ \E k \in inflight, fault \in BOOLEAN : SearchReply(k, fault)
  \/ \E k \in inflight, fault, applied, ack \in BOOLEAN : WriteReply(k, fault, applied, ack)
  \/ BatchRecord
  \/ BatchReturn
  \/ PriceApproveReturn
  \/ /\ approval.pc = "approved" /\ approval.submitted
     /\ PriceCompare(approval.rows)

ConvergeSpec == ConvergeInit /\ [][ConvergeNext]_vars

(***************************************************************************)
(* The barcode-research route (part_003 79-184, POST) with the record      *)
(* store it reads and writes (AirtableClient, part_008) and the lookup     *)
(* service (BarcodeLookupService.lookupBarcode, part_006 589-632).  The    *)
(* time stamp added to the record is left out.                             *)
(***************************************************************************)
\* the products the lookup service knows: one with a product name, one with
\* a title only
ExternalProducts ==
  [b \in {"A", "B"} |->
     [isNull |-> FALSE, barcode_number |-> b,
      product_name |-> IF b = "A" THEN "name of A" ELSE "",
      title |-> IF b = "A" THEN "title of A" ELSE "title of B"]]

NoProduct == [isNull |-> TRUE, barcode_number |-> "", product_name |-> "", title |-> ""]

\* lines 130-148: the record prepared for the store
RecordOf(productData) ==
  [isNull |-> FALSE, barcode |-> productData.barcode_number,
   productName |-> IF productData.product_name # "" THEN productData.product_name
                   ELSE productData.title]

\* the tables of the record store: empty, or holding a record for "A"
ResearchTables == {<<>>, <<[isNull |-> FALSE, barcode |-> "A", productName |-> "stored A"]>>}

\* part_008 97-105: records[0].fields of the filtered records, or null
findByBarcode_result(table, barcode) ==
  LET records == SelectSeq(table, LAMBDA r : r.barcode = barcode)
  IN IF Len(records) > 0 THEN records[1] ELSE NoRecord

\* part_006 598-632: what lookupBarcode settles with once the fetch settled
lookupBarcode_settled(outcome, barcode) ==
  IF outcome = "fault" THEN Throw("fetch failed")
  ELSE IF outcome = "404" THEN Return(NoProduct)
  ELSE IF outcome = "500" THEN Throw("BarcodeLookup API error")
  ELSE IF barcode \in DOMAIN ExternalProducts THEN Return(ExternalProducts[barcode])
  ELSE Return(NoProduct)

\* mutant: the error of the read reaches the catch block of the route
research_findCatch_Rethrow(error) == Throw(error)

\* lines 97-102: a failed findByBarcode is logged, existingRecord stays null
research_findCatch(error) == Return(NoRecord)

\* lines 154-162: a failed createRecord is logged, savedRecord stays null
research_createCatch(error) == Return(NoRecord)

ResearchResponse(status, success, source, fields, saved, message) ==
  [status |-> status, success |-> success, source |-> source, data |-> fields,
   saved |-> saved, message |-> message]

\* lines 174-183: the catch block of the route
research_catch(error) ==
  ResearchResponse(500, FALSE, "none", NoRecord, FALSE, "Failed to research barcode")

\* a request issued to the record store or to the lookup service
ResearchRequest(service, method, barcode) ==
  [service |-> service, method |-> method, barcode |-> barcode, reply |-> "pending"]

\* the route answers
Respond(r, response) == [r EXCEPT !.pc = "done", !.response = response]

\* the barcodes and the saveToDatabase values of a request body
ResearchBarcodes == {"", "A", "B", "C"}
SaveInputs == {"undefined", "true", "false"}

\* { barcode, saveToDatabase = true } = body
SaveOf(x) == x # "false"

\* lines 81-99: the body is read and the store is asked for the barcode
BarcodeResearch(barcode, save) ==
  /\ research.pc = "none"
  /\ LET r == [research EXCEPT !.barcode = barcode, !.saveToDatabase = SaveOf(save)]
     IN IF barcode = ""
        THEN research' = Respond(r, ResearchResponse(400, FALSE, "none", NoRecord, FALSE,
                                                      "Barcode is required"))
        ELSE research' = [r EXCEPT !.pc = "find",
                                   !.requests = <<ResearchRequest("airtable", "findByBarcode",
                                                                   barcode)>>]
  /\ UNCHANGED <<sessionVars, connects, catalog, op, pc, frame, batchVars, calls,
                 inflight, ret, route, probe, approval>>

\* lines 99-115: findByBarcode settled; an existing record is returned, else
\* the lookup service is asked
FindByBarcodeReply(outcome) ==
  /\ research.pc = "find"
  /\ LET c == IF outcome = "fault" THEN research_findCatch("Airtable API error")
              ELSE Return(findByBarcode_result(research.table, research.barcode))
         r == [research EXCEPT !.requests[1].reply = outcome]
     IN IF ~c.ok
        THEN research' = Respond(r, research_catch(c.err))
        ELSE IF ~c.val.isNull
        THEN research' = Respond([r EXCEPT !.existingRecord = c.val],
                                 ResearchResponse(200, TRUE, "database", c.val, FALSE,
                                                  "Product found in database"))
        ELSE IF ~research.apiKey
        THEN research' = Respond(r, research_catch("Barcode Lookup API key not configured"))
        ELSE research' = [r EXCEPT !.pc = "lookup",
                                   !.requests = Append(r.requests,
                                      ResearchRequest("barcodelookup", "lookupBarcode",
                                                      research.barcode))]
  /\ UNCHANGED <<sessionVars, connects, catalog, op, pc, frame, batchVars, calls,
                 inflight, ret, route, probe, approval>>

\* lines 115-172: lookupBarcode settled; not found, or the record is built
\* and, if requested, handed to createRecord
LookupBarcodeReply(outcome) ==
  /\ research.pc = "lookup"
  /\ LET c == lookupBarcode_settled(outcome, research.barcode)
         r == [research EXCEPT !.requests[Len(research.requests)].reply = outcome]
     IN IF ~c.ok
        THEN research' = Respond(r, research_catch(c.err))
        ELSE IF c.val.isNull
        THEN research' = Respond(r, ResearchResponse(404, FALSE, "none", NoRecord, FALSE,
                                                      "Product not found"))
        ELSE LET record == RecordOf(c.val)
             IN IF research.saveToDatabase
                THEN research' = [r EXCEPT !.pc = "create", !.record = record,
                                           !.requests = Append(r.requests,
                                              ResearchRequest("airtable", "createRecord",
                                                              record.barcode))]
                ELSE research' = Respond([r EXCEPT !.record = record],
                                         ResearchResponse(200, TRUE, "api", record, FALSE,
                                                          "Product found and researched"))
  /\ UNCHANGED <<sessionVars, connects, catalog, op, pc, frame, batchVars, calls,
                 inflight, ret, route, probe, approval>>

\* lines 157-172: createRecord settled; a write that failed may or may not
\* have reached the table
CreateRecordReply(outcome, applied) ==
  /\ research.pc = "create"
  /\ outcome = "fault" \/ applied
  /\ LET c == IF outcome = "fault" THEN research_createCatch("Airtable API error")
              ELSE Return(research.record)
         r == [research EXCEPT !.requests[Len(research.requests)].reply = outcome,
                               !.table = IF applied THEN Append(research.table, research.record)
                                         ELSE research.table]
     IN IF ~c.ok
        THEN research' = Respond(r, research_catch(c.err))
        ELSE research' = Respond(r, ResearchResponse(200, TRUE, "api", research.record,
                                                      ~c.val.isNull,
                                                      "Product found and researched"))
  /\ UNCHANGED <<sessionVars, connects, catalog, op, pc, frame, batchVars, calls,
                 inflight, ret, route, probe, approval>>

ResearchInit ==
  /\ Fresh
  /\ validateConfig(env).ok /\ ~NewURLThrows(config.url)
  /\ catalog = InitCatalog
  /\ route = NoRoute
  /\ probe = NoProbe
  /\ research \in {ResearchOver(table, apiKey) : table \in ResearchTables, apiKey \in BOOLEAN}
  /\ approval = NoApproval

ResearchNext ==
  \/ \E barcode \in ResearchBarcodes, save \in SaveInputs : BarcodeResearch(barcode, save)
  \/ \E outcome \in {"fault", "ok"} : FindByBarcodeReply(outcome)
  \/ \E outcome \in {"fault", "404", "500", "ok"} : LookupBarcodeReply(outcome)
  \/ \E outcome \in {"fault", "ok"}, applied \in BOOLEAN : CreateRecordReply(outcome, applied)

ResearchSpec == ResearchInit /\ [][ResearchNext]_vars

(***************************************************************************)
(* The validators on their own (odoo-client.ts 113-132): validatePrice and *)
(* validateBarcode are pure, so they are applied to arguments drawn from   *)
(* all the short strings over a few characters and from a few numbers.     *)
(***************************************************************************)
\* longest string handed to a validator
MaxLen == 3

\* white space, digits, a letter, the sign and the decimal point
ProbeChars == {" ", "0", "7", "x", "-", "."}

Strings(alphabet, n) == UNION {[1..k -> alphabet] : k \in 0..n}

\* the arguments: every string of at most MaxLen characters, and numbers
ProbeInputs ==
  {Str(t) : t \in Strings(ProbeChars, MaxLen)} \cup {Num(0 - 1), Num(0), Num(750), NaN}

ValidatorInit ==
  /\ Fresh
  /\ validateConfig(env).ok /\ ~NewURLThrows(config.url)
  /\ catalog = InitCatalog
  /\ route = NoRoute
  /\ probe \in {[NoProbe EXCEPT !.arg = x] : x \in ProbeInputs}
  /\ research = NoResearch
  /\ approval = NoApproval

\* validatePrice(arg)
ApplyValidatePrice ==
  /\ probe.fn = "none"
  /\ probe' = [probe EXCEPT !.fn = "validatePrice", !.out = validatePrice(probe.arg)]
  /\ UNCHANGED <<sessionVars, connects, catalog, op, pc, frame, batchVars, calls,
                 inflight, ret, route, research, approval>>

\* validateBarcode(arg), for a string
ApplyValidateBarcode ==
  /\ probe.fn = "none"
  /\ probe.arg.type = "string"
  /\ probe' = [probe EXCEPT !.fn = "validateBarcode", !.out = validateBarcode(probe.arg.s)]
  /\ UNCHANGED <<sessionVars, connects, catalog, op, pc, frame, batchVars, calls,
                 inflight, ret, route, research, approval>>

\* validateBarcode applied to the value validateBarcode returned
ApplyValidateBarcodeAgain ==
  /\ probe.fn = "validateBarcode"
  /\ probe.out.ok
  /\ probe' = [probe EXCEPT !.fn = "validateBarcode twice",
                            !.again = validateBarcode(probe.out.val)]
  /\ UNCHANGED <<sessionVars, connects, catalog, op, pc, frame, batchVars, calls,
                 inflight, ret, route, research, approval>>

ValidatorNext ==
  \/ ApplyValidatePrice
  \/ ApplyValidateBarcode
  \/ ApplyValidateBarcodeAgain

ValidatorSpec == ValidatorInit /\ [][ValidatorNext]_vars

(***************************************************************************)
(* Vocabulary of the properties, stated without the operators of the code. *)
(***************************************************************************)
\* s is empty or consists of white space only
Blank(s) == \A k \in 1..Len(s) : s[k] = " "

\* t is s with its leading and trailing white space removed
IsTrimOf(t, s) ==
  \E l, r \in 0..Len(s) :
    /\ l + r <= Len(s)
    /\ t = SubSeq(s, l + 1, Len(s) - r)
    /\ \A k \in 1..l : s[k] = " "
    /\ \A k \in (Len(s) - r + 1)..Len(s) : s[k] = " "
    /\ t = <<>> \/ (t[1] # " " /\ t[Len(t)] # " ")

\* some entity of the catalog carries exactly the identifier t
HasIdentifier(t) == \E id \in DOMAIN catalog : catalog[id].barcode = t

\* some entity of the catalog carries the identifier s, trimmed
HasTrimmed(s) == \E t \in {catalog[id].barcode : id \in DOMAIN catalog} : IsTrimOf(t, s)

\* the number the price denotes: a number itself, a string what it parses to
Denoted(p) == IF p.type = "string" THEN ParseFloat(p.s) ELSE p

\* a price that is a number >= 0, or a string of digits denoting one
PriceNonNegative(p) ==
  /\ p.type = "string" => p.s # <<>> /\ \A k \in 1..Len(p.s) : IsDigit(p.s[k])
  /\ ~Denoted(p).nan /\ Denoted(p).v >= 0

\* a price that is unparseable or negative
PriceInvalid(p) == Denoted(p).nan \/ Denoted(p).v < 0

\* callObject's guard passes: the session holds an object client and a truthy identity
Connected == objectClient /\ uid # 0

CallsOf(method) == {k \in 1..Len(calls) : calls[k].method = method}
Faulted == \E k \in 1..Len(calls) : calls[k].reply = "fault"
UpdateDone == op = "done" /\ ret.of = "update"
BatchDone == op = "done" /\ ret.of = "batch"
LookupDone == op = "done" /\ ret.of = "lookup"

(***************************************************************************)
(* Properties of updateProductPrice.                                       *)
(***************************************************************************)
\* C1 as stated, read on a connected session: for every identifier that is
\* non-empty after trimming and every price >= 0, updateProductPrice does not
\* throw and returns success exactly when some catalog entity carries the
\* trimmed identifier.
C1_SuccessIffIdentifierExists ==
  (UpdateDone /\ Connected /\ ~Blank(frame.barcode) /\ PriceNonNegative(frame.newPrice))
    => /\ ret.ok
       /\ ret.val.success <=> HasTrimmed(frame.barcode)

\* C1, amended: for every identifier that is non-empty after trimming and
\* every price >= 0, updateProductPrice does not throw; on a connected
\* session whose search and write calls do not fault it returns success
\* exactly when some catalog entity carries the trimmed identifier, and on a
\* session that is not connected, or when one of its calls faults, it returns
\* success = false.
C1_SuccessIffFoundAndNoFault ==
  (UpdateDone /\ ~Blank(frame.barcode) /\ PriceNonNegative(frame.newPrice))
    => /\ ret.ok
       /\ ret.val.success <=> (Connected /\ ~Faulted /\ HasTrimmed(frame.barcode))

\* C1 witness: a padded identifier carried by two entities was updated at a
\* price given as a string of digits, on a connected session.
C1_Witness ==
  /\ UpdateDone /\ Connected /\ ~Faulted
  /\ frame.barcode = <<" ", "A", " ">> /\ frame.newPrice = Str(<<"7">>)
  /\ ret.ok /\ ret.val.success

\* C2: updateProductPrice issues a write exactly when its search returned at
\* least one id; then it issues one write, on exactly the ids the search
\* returned, which are all the entities carrying the identifier, and a
\* succeeded outcome counts those ids; when the search returned no id there is
\* no write and the outcome is failed with updated_count 0.
C2_OneWriteOnAllMatches ==
  op \in {"update", "done"} /\ (op = "done" => ret.of = "update")
    => LET S == CallsOf("search")
           W == CallsOf("write")
           found == {k \in S : calls[k].reply = "value" /\ calls[k].rids # <<>>}
       IN /\ Cardinality(S) <= 1 /\ Cardinality(W) <= 1
          /\ W # {} <=> found # {}
          /\ \A w \in W : \E k \in found :
               /\ k < w
               /\ calls[w].ids = calls[k].rids
               /\ Len(calls[w].ids) = Cardinality(Range(calls[w].ids))
               /\ \E t \in {calls[k].barcode} :
                    /\ IsTrimOf(t, frame.barcode)
                    /\ Range(calls[w].ids) = {id \in DOMAIN catalog : catalog[id].barcode = t}
               /\ (UpdateDone /\ ret.val.success) => ret.val.updated_count = Len(calls[w].ids)
          /\ (UpdateDone /\ found = {})
               => ~ret.val.success /\ ret.val.updated_count = 0

\* C2 witness: one write went to both entities carrying "A" and the outcome
\* counts 2.
C2_Witness ==
  /\ UpdateDone /\ ret.val.success /\ ret.val.updated_count = 2
  /\ \E w \in CallsOf("write") : calls[w].ids = <<1, 2>>

(***************************************************************************)
(* Properties of the public operations together.                           *)
(***************************************************************************)
\* request r of the batch (1-based) is well formed
RowValid(r) == ~Blank(data[r].barcode) /\ ~PriceInvalid(data[r].price)

\* a call issued for request r of the batch faulted
RowFaulted(r) == \E k \in 1..Len(calls) : calls[k].row = r - 1 /\ calls[k].reply = "fault"

\* C3: updateProductPrice, batchUpdateFromData and lookupProduct never throw,
\* whatever the input and wherever the transport faults; a validation failure,
\* a missing entity, a transport fault and a session that is not connected
\* each give a result with success = false, and a failed update outcome has
\* updated_count 0.
C3_Total ==
  op = "done" =>
    /\ ret.ok
    /\ ret.of = "update" =>
         /\ (Blank(frame.barcode) \/ PriceInvalid(frame.newPrice) \/ ~Connected
               \/ Faulted \/ ~HasTrimmed(frame.barcode)) => ~ret.val.success
         /\ ~ret.val.success => ret.val.updated_count = 0
    /\ ret.of = "lookup" =>
         ((Blank(frame.barcode) \/ ~Connected \/ Faulted \/ ~HasTrimmed(frame.barcode))
            => ~ret.val.success)
    /\ ret.of = "batch" =>
         /\ Len(ret.val.results) = Len(data)
         /\ \A r \in 1..Len(data) :
              /\ (~RowValid(r) \/ ~Connected \/ RowFaulted(r) \/ ~HasTrimmed(data[r].barcode))
                   => ~ret.val.results[r].success
              /\ ~ret.val.results[r].success => ret.val.results[r].updated_count = 0

\* C3 witness: a batch returned whose rows failed by validation, by a missing
\* entity and by a transport fault.
C3_Witness ==
  /\ BatchDone /\ Connected /\ ret.ok /\ Len(data) = 3
  /\ ~RowValid(1) /\ ~HasTrimmed(data[2].barcode) /\ RowValid(2) /\ RowFaulted(3)

\* C4 as stated: a failed request never stops the batch: every later request
\* is passed to updateProductPrice, and when it is valid its search call is
\* issued to the remote.
C4_FailureDoesNotStopBatch ==
  BatchDone =>
    \A a, b \in 1..Len(data) :
      (a < b /\ a <= Len(results) /\ ~results[a].success)
        => /\ (b - 1) \in Range(attempted)
           /\ RowValid(b) => \E k \in CallsOf("search") : calls[k].row = b - 1

\* C4, amended: on a connected session a failed request never stops the
\* batch: every later request is passed to updateProductPrice, and when it is
\* valid its search call is issued to the remote; on a session that is not
\* connected every later request is still passed to updateProductPrice, and
\* no call is issued.
C4_FailureDoesNotStopBatchConnected ==
  BatchDone =>
    \A a, b \in 1..Len(data) :
      (a < b /\ a <= Len(results) /\ ~results[a].success)
        => /\ (b - 1) \in Range(attempted)
           /\ (Connected /\ RowValid(b)) => \E k \in CallsOf("search") : calls[k].row = b - 1
           /\ ~Connected => calls = <<>>

\* C4 witness: the first request failed by a transport fault and the search
\* of the second, valid request was issued after it.
C4_Witness ==
  /\ BatchDone /\ Connected /\ Len(data) >= 2
  /\ RowFaulted(1) /\ ~results[1].success /\ RowValid(2)
  /\ \E k \in CallsOf("search") : calls[k].row = 1

\* C5: after every loop iteration successfulUpdates + failedUpdates is the
\* length of results; on return total_processed, the length of results and
\* the length of the input are equal, successful_updates counts the outcomes
\* with success = true and failed_updates those with success = false.
C5_CountsAddUp ==
  /\ op = "batch" => successfulUpdates + failedUpdates = Len(results)
  /\ BatchDone =>
       /\ ret.val.successful_updates + ret.val.failed_updates = Len(ret.val.results)
       /\ ret.val.total_processed = Len(ret.val.results)
       /\ Len(ret.val.results) = Len(data)
       /\ ret.val.successful_updates =
            Cardinality({r \in 1..Len(ret.val.results) : ret.val.results[r].success})
       /\ ret.val.failed_updates =
            Cardinality({r \in 1..Len(ret.val.results) : ~ret.val.results[r].success})

\* C5 witness: a batch returned with succeeded and failed outcomes.
C5_Witness ==
  /\ BatchDone /\ Len(data) >= 2
  /\ ret.val.successful_updates >= 1 /\ ret.val.failed_updates >= 1

\* C6 as stated: results[i] echoes the identifier of request i and has
\* row_number i + 2 (i counted from 0), whatever the outcomes.
C6_EchoesIdentifierAndRow ==
  BatchDone =>
    /\ Len(results) = Len(data)
    /\ \A r \in 1..Len(data) :
         /\ r <= Len(results)
         /\ results[r].barcode = data[r].barcode
         /\ results[r].row_number = (r - 1) + 2

\* C6, amended: results[i] has row_number i + 2 (i counted from 0) and echoes
\* the identifier of request i: with its leading and trailing white space
\* removed when the outcome is succeeded or not-found, and as it was given in
\* every other failed outcome.
C6_EchoesTrimmedIdentifierAndRow ==
  BatchDone =>
    /\ Len(results) = Len(data)
    /\ \A r \in 1..Len(data) :
         /\ r <= Len(results)
         /\ results[r].row_number = (r - 1) + 2
         /\ IF results[r].success \/ results[r].message = "No products found"
            THEN IsTrimOf(results[r].barcode, data[r].barcode)
            ELSE results[r].barcode = data[r].barcode

\* C6 witness: a padded identifier is echoed trimmed in the second outcome,
\* after a failed first one.
C6_Witness ==
  /\ BatchDone /\ Len(data) >= 2 /\ ~results[1].success
  /\ data[2].barcode = <<" ", "A", " ">> /\ results[2].barcode = <<"A">>
  /\ results[2].success /\ results[2].row_number = 3

\* C7: during batchUpdateFromData at most one remote call is in flight, the
\* calls of a request are issued only after the outcomes of all earlier
\* requests are in results, and the calls reach the transport in the input
\* order of their requests.
C7_OneCallAtATime ==
  op = "batch" =>
    /\ Cardinality(inflight) <= 1
    /\ \A k \in 1..Len(calls) : calls[k].row <= Len(results)
    /\ \A k, l \in 1..Len(calls) :
         k < l => calls[k].row <= calls[l].row /\ calls[k].reply # "pending"

\* C7 witness: the write of the second request is in flight, after the
\* outcome of the first was recorded.
C7_Witness ==
  /\ op = "batch" /\ Len(results) = 1
  /\ \E k \in inflight : calls[k].method = "write" /\ calls[k].row = 1
  /\ \E k \in 1..Len(calls) : calls[k].row = 0

\* the steps of a running batch: the transport answers, the loop goes on
BatchProgress ==
  \/ \E k \in inflight, fault \in BOOLEAN : SearchReply(k, fault)
  \/ \E k \in inflight, fault, applied, ack \in BOOLEAN : WriteReply(k, fault, applied, ack)
  \/ BatchDispatch
  \/ BatchRecord
  \/ BatchReturn

\* the requests of the batches whose termination is checked: one that can
\* succeed or fault, one that is not found, one that fails validation
FairRows ==
  {[barcode |-> <<"A">>, price |-> Num(500)],
   [barcode |-> <<"C">>, price |-> Num(500)],
   [barcode |-> <<" ">>, price |-> Str(<<"x">>)]}

FairBatches == UNION {[1..n -> FairRows] : n \in 0..MaxBatch}

\* the price lists uploaded meanwhile: a single row, found in the catalog
FairRowLists == [1..1 -> {row \in RowInputs : row["Item"] = <<"B">>}]

FairNext == NextOver(FairBatches, FairRowLists)

\* every remote call is answered and the event loop resumes the batch
FairSpec == Init /\ [][FairNext]_vars /\ WF_vars(BatchProgress)

\* C8: when every remote call is answered, batchUpdateFromData returns, and
\* when it has returned every request was passed to updateProductPrice once,
\* in order, and has exactly one outcome.
C8_BatchReturnsAfterEveryRequest ==
  /\ (op = "batch") ~> BatchDone
  /\ [](BatchDone =>
          /\ attempted = [r \in 1..Len(data) |-> r - 1]
          /\ Len(results) = Len(data))

\* C8 witness: a batch of three requests returned after a transport fault.
C8_Witness ==
  /\ BatchDone /\ Len(data) = 3 /\ Faulted /\ Len(results) = 3

C10_ConnectResult ==
  /\ ret.of = "connect" =>
       /\ ret.ok
       /\ ret.val \in BOOLEAN
       /\ ret.val <=>
            /\ Len(calls) = 2
            /\ calls[1].method = "version" /\ calls[1].reply # "fault"
            /\ calls[2].method = "authenticate" /\ calls[2].reply = "value"
            /\ calls[2].rids # <<0>>
  /\ (op = "connect" \/ ret.of = "connect") =>
       \A k \in CallsOf("authenticate") :
         \E j \in CallsOf("version") : j < k /\ calls[j].reply \notin {"fault", "pending"}

\* C10 witness: connect returned false because authenticate returned a falsy
\* identity, on a session whose earlier connect had returned true.
C10_Witness ==
  /\ ret.of = "connect" /\ ret.val = FALSE /\ objectClient
  /\ Len(calls) = 2 /\ calls[2].reply = "value" /\ calls[2].rids = <<0>>

(***************************************************************************)
(* Properties of callObject.                                               *)
(***************************************************************************)
\* an operation that reaches callObject is running or has returned
DataOperation == op \in {"update", "batch", "lookup"} \/ UpdateDone \/ BatchDone \/ LookupDone

\* C11: on a session on which no connect has yet succeeded, callObject
\* rejects with the not-connected error and hands no call to the transport:
\* an operation that reaches callObject there issues no call, and its outcome
\* carries the error of the rejection.
C11_RejectsBeforeConnect ==
  (DataOperation /\ ~connects.succeeded) =>
    /\ calls = <<>>
    /\ (UpdateDone /\ ~Blank(frame.barcode) /\ ~PriceInvalid(frame.newPrice))
         => ~ret.val.success /\ ret.val.message = "not initialized"
    /\ (LookupDone /\ ~Blank(frame.barcode))
         => ~ret.val.success /\ ret.val.message = "not initialized"
    /\ BatchDone =>
         \A r \in 1..Len(data) :
           RowValid(r) => /\ ~ret.val.results[r].success
                          /\ ret.val.results[r].message = "not initialized"

\* C11 witness: after a connect that returned false, an update with a valid
\* identifier and price ended with the rejection and no call.
C11_Witness ==
  /\ UpdateDone /\ ~connects.succeeded /\ connects.last = "false"
  /\ ~Blank(frame.barcode) /\ ~PriceInvalid(frame.newPrice)
  /\ ret.val.message = "not initialized" /\ calls = <<>>

(***************************************************************************)
(* Properties of the validators.                                           *)
(***************************************************************************)
\* the position of the first "." of s, or Len(s) + 1 when there is none
PointAt(s) ==
  IF \E k \in 1..Len(s) : s[k] = "." THEN CHOOSE k \in 1..Len(s) :
       s[k] = "." /\ \A j \in 1..(k - 1) : s[j] # "."
  ELSE Len(s) + 1

\* s without one leading sign
Unsigned(s) == IF s # <<>> /\ s[1] \in {"-", "+"} THEN Tail(s) ELSE s

\* s is a decimal numeral: white space around an optional sign, digits and
\* at most one decimal point, with at least one digit, and nothing else
NumericString(s) ==
  LET u == Unsigned(Trim(s))
  IN /\ \E k \in 1..Len(u) : IsDigit(u[k])
     /\ \A k \in 1..Len(u) : IsDigit(u[k]) \/ (u[k] = "." /\ k = PointAt(u))

\* the hundredths a decimal numeral denotes
NumericValue(s) ==
  LET t == Trim(s)
      u == Unsigned(t)
      p == PointAt(u)
      mag == 100 * DigitsValue(SubSeq(u, 1, p - 1))
               + FractionHundredths(SubSeq(u, p + 1, Len(u)))
  IN IF t[1] = "-" THEN 0 - mag ELSE mag

\* the argument is a number >= 0 or a numeric string denoting one
AcceptablePrice(a) ==
  \/ a.type = "number" /\ ~a.nan /\ a.v >= 0
  \/ a.type = "string" /\ NumericString(a.s) /\ NumericValue(a.s) >= 0

\* the number an acceptable price denotes
AcceptableValue(a) == IF a.type = "string" THEN Num(NumericValue(a.s)) ELSE a

InvalidPriceErrors == {"Invalid price format", "Price cannot be negative"}

\* C12 as stated: validatePrice accepts exactly the inputs that are a number
\* >= 0 or a numeric string denoting a number >= 0 (zero included) and returns
\* that numeric value; it fails with an invalid-price error for every negative
\* number and every non-numeric string.
C12_AcceptsExactlyNumeric ==
  probe.fn = "validatePrice" =>
    /\ probe.out.ok <=> AcceptablePrice(probe.arg)
    /\ probe.out.ok => probe.out.val = AcceptableValue(probe.arg)
    /\ ~probe.out.ok => probe.out.err \in InvalidPriceErrors

\* what validatePrice does on the inputs the statement is right about: every
\* acceptable input is accepted with its value, every number that is negative
\* or NaN and every string with no leading numeral fails
C12_AcceptsEveryNumeric ==
  probe.fn = "validatePrice" =>
    /\ AcceptablePrice(probe.arg)
         => probe.out.ok /\ probe.out.val = AcceptableValue(probe.arg)
    /\ (probe.arg.type = "number" /\ ~AcceptablePrice(probe.arg)) => ~probe.out.ok
    /\ ~probe.out.ok => probe.out.err \in InvalidPriceErrors

\* a string that is not a numeral was accepted for the numeral it starts with
C12_Witness ==
  /\ probe.fn = "validatePrice" /\ probe.arg = Str(<<"7", "x">>)
  /\ probe.out = Return(Num(700))

\* C13: validateBarcode fails with the invalid-identifier error exactly when
\* the input is empty or consists only of white space; otherwise it returns
\* the input with its leading and trailing white space removed, and applying
\* it again to its result returns the same value.
C13_TrimsAndIsIdempotent ==
  probe.fn \in {"validateBarcode", "validateBarcode twice"} =>
    /\ ~probe.out.ok <=> Blank(probe.arg.s)
    /\ ~probe.out.ok => probe.out.err = "Barcode cannot be empty"
    /\ probe.out.ok => IsTrimOf(probe.out.val, probe.arg.s)
    /\ probe.fn = "validateBarcode twice" => probe.again = probe.out

\* C13 witness: an identifier with white space on both sides was trimmed, and
\* validating the result again returned it unchanged.
C13_Witness ==
  /\ probe.fn = "validateBarcode twice"
  /\ probe.arg.s = <<" ", "7", " ">>
  /\ probe.out = Return(<<"7">>) /\ probe.again = Return(<<"7">>)

(***************************************************************************)
(* Properties of lookupProduct.                                            *)
(***************************************************************************)
\* the entities whose external identifier is exactly s trimmed, s not blank
Matching(s) ==
  {id \in DOMAIN catalog : ~Blank(s) /\ IsTrimOf(catalog[id].barcode, s)}

\* the first of them, in the order of the search result (ascending id)
FirstMatching(s) == CHOOSE id \in Matching(s) : \A other \in Matching(s) : id <= other

\* {id, name, barcode, list_price, default_code, categ_id} of entity id
Projection(id) ==
  [id |-> id, name |-> catalog[id].name, barcode |-> catalog[id].barcode,
   list_price |-> catalog[id].list_price, default_code |-> catalog[id].default_code,
   categ_id |-> catalog[id].categ_id]

\* C14 as stated: lookupProduct returns success with the projection {id, name,
\* barcode, list_price, default_code, categ_id} of the first matching entity
\* when at least one catalog entity has exactly the trimmed identifier, and a
\* not-found result (success = false) when none has it, in which case no read
\* call is issued.
C14_FoundIffIdentifierExists ==
  (LookupDone /\ Connected) =>
    IF Matching(frame.barcode) # {}
    THEN /\ ret.val.success
         /\ ret.val.product = Projection(FirstMatching(frame.barcode))
    ELSE ~ret.val.success /\ CallsOf("read") = {}

\* C14, amended: on a connected session whose search and read calls do not
\* fault, lookupProduct returns success with the projection of the first
\* matching entity when at least one catalog entity has exactly the trimmed
\* identifier; when none has it the result is not-found (success = false) and
\* no read call is issued; when the session is not connected or a call faults
\* the result has success = false.
C14_FoundIffExistsAndNoFault ==
  LookupDone =>
    /\ ret.ok
    /\ (Connected /\ ~Faulted /\ Matching(frame.barcode) # {})
         => /\ ret.val.success
            /\ ret.val.product = Projection(FirstMatching(frame.barcode))
    /\ Matching(frame.barcode) = {} => ~ret.val.success /\ CallsOf("read") = {}
    /\ (~Connected \/ Faulted) => ~ret.val.success

\* C14 witness: two entities carry the identifier and the lookup returned the
\* projection of the first.
C14_Witness ==
  /\ LookupDone /\ Connected /\ ~Faulted
  /\ Cardinality(Matching(frame.barcode)) = 2
  /\ ret.val.success /\ ret.val.product.id = FirstMatching(frame.barcode)
  /\ Cardinality(CallsOf("read")) = 1

(***************************************************************************)
(* Properties of the price-compare route.                                  *)
(***************************************************************************)
\* the route has answered
CompareDone == op = "done" /\ ret.of = "compare"

\* lookupProduct or the price-compare route is running or has returned
ReadOnlyOperation == op \in {"lookup", "compare"} \/ LookupDone \/ route.pc # "none"

\* C15: lookupProduct and the reconciliation flow of the price-compare route
\* (catalog load, compare, sort, summarize) never issue a write call: the
\* remote catalog is the same before, during and after them, in every outcome
\* including failures.
C15_ReadOnly ==
  ReadOnlyOperation => CallsOf("write") = {} /\ catalog = InitCatalog

\* C15 witness: the route answered with comparisons after its search_read, and
\* the catalog is as it was.
C15_Witness ==
  /\ CompareDone /\ ret.val.success /\ Len(ret.val.comparisons) = 2
  /\ CallsOf("search_read") = {1} /\ catalog = InitCatalog

\* the route went past connect: its catalog load was started
CatalogLoadStarted == op = "compare" \/ (CompareDone /\ connects.last = "true")

\* the route answered after a catalog load that did not fault
CatalogLoaded == CompareDone /\ ret.val.success

\* the place of the last entity of barcode b in the search_read result
LastPlace(b) ==
  CHOOSE k \in 1..Len(route.odooProducts) :
    /\ route.odooProducts[k].barcode = b
    /\ \A j \in (k + 1)..Len(route.odooProducts) : route.odooProducts[j].barcode # b

\* C16: the catalog load issues exactly one search_read call, over the whole
\* catalog; the map built from its result has as keys exactly the non-empty
\* external identifiers of the returned entities, and an identifier carried
\* by several entities maps to the last of them in result order.
C16_CatalogMap ==
  /\ CatalogLoadStarted => Len(calls) = 1 /\ calls[1].method = "search_read"
  /\ CatalogLoaded =>
       /\ Len(route.odooProducts) = Cardinality(DOMAIN catalog)
       /\ \A id \in DOMAIN catalog :
            \E k \in 1..Len(route.odooProducts) :
              /\ route.odooProducts[k].id = id
              /\ route.odooProducts[k].barcode = catalog[id].barcode
              /\ route.odooProducts[k].list_price = catalog[id].list_price
       /\ DOMAIN route.odooProductMap
            = {route.odooProducts[k].barcode : k \in 1..Len(route.odooProducts)} \ {<<>>}
       /\ \A b \in DOMAIN route.odooProductMap :
            route.odooProductMap[b] = route.odooProducts[LastPlace(b)]

\* C16 witness: the remote listed the catalog by descending id, two entities
\* carry the barcode "A", and the map holds the one listed last, entity 1.
C16_Witness ==
  /\ CatalogLoaded
  /\ route.odooProducts[1].id > route.odooProducts[2].id
  /\ Cardinality({id \in DOMAIN catalog : catalog[id].barcode = <<"A">>}) = 2
  /\ route.odooProductMap[<<"A">>].id = 1
  /\ route.odooProductMap[<<"A">>] = route.odooProducts[Len(route.odooProducts)]

\* the row carries the inventory type tag, an identifier that is not blank
\* and a price that parseFloat reads as a number
ParseableRow(row) ==
  /\ "Type" \in DOMAIN row /\ IsTrimOf(InventoryPart, row["Type"])
  /\ "Item" \in DOMAIN row /\ ~Blank(row["Item"])
  /\ "Price" \in DOMAIN row /\ ~ParseFloat(row["Price"]).nan

\* the row is parseable and its price is not negative
NonNegativeRow(row) == ParseableRow(row) /\ ParseFloat(row["Price"]).v >= 0

\* the retained rows are the rows of kept, in order, each with its trimmed
\* identifier and the number its price denotes
RetainedAre(kept) ==
  /\ Len(route.quickbooksProducts) = Len(kept)
  /\ \A k \in 1..Len(kept) :
       /\ IsTrimOf(route.quickbooksProducts[k].barcode, kept[k]["Item"])
       /\ route.quickbooksProducts[k].price = ParseFloat(kept[k]["Price"])

\* C17 as stated: the retained external price rows are exactly the input rows
\* whose type tag is the inventory type, whose identifier is non-empty after
\* trimming and whose price parses as a non-negative number, kept in input
\* order; every other row is dropped without an error.
C17_RetainsNonNegativeRows ==
  route.pc # "none" => RetainedAre(SelectSeq(route.rows, NonNegativeRow))

\* what the filter does: a row is retained whenever its price parses as a
\* number, negative or not; a dropped row raises no error, the comparison
\* covers the retained rows
C17_RetainsParseableRows ==
  /\ route.pc # "none" => RetainedAre(SelectSeq(route.rows, ParseableRow))
  /\ CatalogLoaded => ret.val.summary.total = Len(route.quickbooksProducts)

\* a row with a negative price was retained and compared
C17_Witness ==
  /\ CatalogLoaded /\ Len(route.rows) = 2 /\ Len(route.quickbooksProducts) = 1
  /\ route.quickbooksProducts[1].price.v < 0
  /\ ret.val.comparisons[1].quickbooksPrice.v < 0

\* the response holds the comparison c
Reported(c) == \E j \in 1..Len(ret.val.comparisons) : ret.val.comparisons[j] = c

\* the retained rows whose identifier is, or is not, a key of the catalog map
MatchedRows ==
  {k \in 1..Len(route.quickbooksProducts) :
     route.quickbooksProducts[k].barcode \in DOMAIN route.odooProductMap}
UnmatchedRows == (1..Len(route.quickbooksProducts)) \ MatchedRows

\* the entity the catalog map holds for retained row k
EntityOf(k) == route.odooProductMap[route.quickbooksProducts[k].barcode]

\* C18: for every external row whose identifier is not a key of the catalog
\* map, the comparison has status not_found_in_odoo, odooPrice null,
\* priceDifference equal to the proposed price and percentChange 0; the
\* response reports it.
C18_NotFoundComparison ==
  CatalogLoaded =>
    /\ Len(route.comparisons) = Len(route.quickbooksProducts)
    /\ \A k \in UnmatchedRows :
         LET c == route.comparisons[k]
         IN /\ c.barcode = route.quickbooksProducts[k].barcode
            /\ c.status = "not_found_in_odoo"
            /\ c.odooPrice = Null
            /\ c.quickbooksPrice = route.quickbooksProducts[k].price
            /\ c.priceDifference = route.quickbooksProducts[k].price
            /\ c.percentChange.num = 0 /\ c.percentChange.den # 0
            /\ Reported(c)

\* C18 witness: the row of barcode "C", which no entity carries, was compared
\* next to a row that has an entity.
C18_Witness ==
  /\ CatalogLoaded /\ Len(route.quickbooksProducts) = 2
  /\ 1 \in MatchedRows /\ 2 \in UnmatchedRows
  /\ route.comparisons[2].barcode = <<"C">>
  /\ route.comparisons[2].priceDifference = Num(700)
  /\ route.comparisons[2].status = "not_found_in_odoo"

\* proposed price - remote price of the matched retained row k, in hundredths
DifferenceOf(k) == route.quickbooksProducts[k].price.v - EntityOf(k).list_price.v

\* C19: for every external row whose identifier is a key of the catalog map,
\* priceDifference = proposed price - remote price, and the status is match
\* iff |priceDifference| < 0.01, increase iff priceDifference >= 0.01,
\* decrease iff priceDifference <= -0.01 (prices are exact hundredths, 0.01
\* is one of them); the status new is never assigned.
C19_MatchedStatus ==
  CatalogLoaded =>
    /\ \A k \in MatchedRows :
         LET c == route.comparisons[k]
             d == DifferenceOf(k)
         IN /\ c.barcode = route.quickbooksProducts[k].barcode
            /\ c.odooPrice = EntityOf(k).list_price
            /\ c.quickbooksPrice = route.quickbooksProducts[k].price
            /\ c.priceDifference = Num(d)
            /\ c.status = "match" <=> (d < 1 /\ d > 0 - 1)
            /\ c.status = "increase" <=> d >= 1
            /\ c.status = "decrease" <=> d <= 0 - 1
            /\ Reported(c)
    /\ \A j \in 1..Len(ret.val.comparisons) :
         ret.val.comparisons[j].status
           \in {"match", "increase", "decrease", "not_found_in_odoo"}

\* C19 witness: three matched rows, one equal to the remote price, one above
\* it and one below it.
C19_Witness ==
  /\ CatalogLoaded /\ MatchedRows = {1, 2, 3}
  /\ route.comparisons[1].status = "match" /\ DifferenceOf(1) = 0
  /\ route.comparisons[2].status = "increase" /\ DifferenceOf(2) > 0
  /\ route.comparisons[3].status = "decrease" /\ DifferenceOf(3) < 0

\* C20: for every matched row, percentChange = priceDifference / remote price
\* * 100 when the remote price is > 0, and percentChange = 0 when the remote
\* price is <= 0.
C20_PercentChange ==
  CatalogLoaded =>
    \A k \in MatchedRows :
      LET pct == route.comparisons[k].percentChange
          remote == EntityOf(k).list_price.v
      IN /\ pct.den # 0
         /\ remote > 0 => pct.num * remote = DifferenceOf(k) * 100 * pct.den
         /\ remote <= 0 => pct.num = 0

\* C20 witness: one matched row whose remote price is 0 and whose proposed
\* price is not, and one whose remote price is positive and differs from the
\* proposed price.
C20_Witness ==
  /\ CatalogLoaded /\ MatchedRows = {1, 2}
  /\ EntityOf(1).list_price.v = 0 /\ DifferenceOf(1) > 0
  /\ route.comparisons[1].percentChange.num = 0
  /\ EntityOf(2).list_price.v > 0 /\ DifferenceOf(2) # 0
  /\ route.comparisons[2].percentChange.num # 0

\* the rank of a status in the returned order
RankOf(status) ==
  CASE status = "not_found_in_odoo" -> 1 [] status = "decrease" -> 2
    [] status = "increase" -> 3 [] status = "match" -> 4 [] status = "new" -> 5

\* |priceDifference| of a comparison, in hundredths
Magnitude(c) == IF c.priceDifference.v < 0 THEN 0 - c.priceDifference.v ELSE c.priceDifference.v

\* a and b are equal on both sort keys
SameKeys(a, b) == RankOf(a.status) = RankOf(b.status) /\ Magnitude(a) = Magnitude(b)

\* a may stand before b: lower rank, or the same rank and no smaller magnitude
MayPrecede(a, b) ==
  \/ RankOf(a.status) < RankOf(b.status)
  \/ RankOf(a.status) = RankOf(b.status) /\ Magnitude(a) >= Magnitude(b)

\* out is ins rearranged by a one-to-one placement that keeps the input order
\* of the items equal on both keys
StablePlacement(ins, out) ==
  /\ Len(out) = Len(ins)
  /\ \E place \in Permutations(1..Len(ins)) :
       /\ \A k \in 1..Len(ins) : out[place[k]] = ins[k]
       /\ \A k, l \in 1..Len(ins) :
            (k < l /\ SameKeys(ins[k], ins[l])) => place[k] < place[l]

\* C21: the returned comparison sequence is the stable sort of the per-row
\* comparisons by status priority (not_found_in_odoo < decrease < increase <
\* match < new) and then by descending |priceDifference|: it is a permutation
\* of one comparison per retained external row, every not-found item precedes
\* every match item, and items equal on both keys keep their input order.
C21_StableSort ==
  CatalogLoaded =>
    LET out == ret.val.comparisons
    IN /\ Len(route.comparisons) = Len(route.quickbooksProducts)
       /\ StablePlacement(route.comparisons, out)
       /\ \A j, l \in 1..Len(out) : j < l => MayPrecede(out[j], out[l])
       /\ \A j, l \in 1..Len(out) :
            (out[j].status = "not_found_in_odoo" /\ out[l].status = "match") => j < l

\* C21 witness: a match, then two rows that no entity carries with the same
\* price and different descriptions, came back with the two not-found items
\* first, in their input order, and the match last.
C21_Witness ==
  /\ CatalogLoaded /\ Len(route.comparisons) = 3
  /\ route.comparisons[1].status = "match"
  /\ route.comparisons[2].status = "not_found_in_odoo"
  /\ route.comparisons[3].status = "not_found_in_odoo"
  /\ route.comparisons[2] # route.comparisons[3]
  /\ SameKeys(route.comparisons[2], route.comparisons[3])
  /\ ret.val.comparisons
       = <<route.comparisons[2], route.comparisons[3], route.comparisons[1]>>

\* the number of items of cs that carry the status
Tally(cs, status) == Len(SelectSeq(cs, LAMBDA c : c.status = status))

\* C22: the summary returned with a comparison sequence has total equal to the
\* length of that sequence and each per-status count (match, increase,
\* decrease, not found) equal to the number of items of that status in the
\* returned sequence, so the four counts sum to total.
C22_SummaryIsTally ==
  CatalogLoaded =>
    LET out == ret.val.comparisons
        summary == ret.val.summary
    IN /\ summary.total = Len(out)
       /\ summary.matches = Tally(out, "match")
       /\ summary.increases = Tally(out, "increase")
       /\ summary.decreases = Tally(out, "decrease")
       /\ summary.notFoundInOdoo = Tally(out, "not_found_in_odoo")
       /\ summary.matches + summary.increases + summary.decreases
            + summary.notFoundInOdoo = summary.total

\* C22 witness: the same not-found row twice and a decrease: the summary
\* counts 3 items, 2 not found and 1 decrease.
C22_Witness ==
  /\ CatalogLoaded /\ Len(ret.val.comparisons) = 3
  /\ ret.val.comparisons[1] = ret.val.comparisons[2]
  /\ ret.val.summary.total = 3 /\ ret.val.summary.notFoundInOdoo = 2
  /\ ret.val.summary.decreases = 1 /\ ret.val.summary.matches = 0

(***************************************************************************)
(* Properties of the configuration.                                        *)
(***************************************************************************)
\* the variables that hold the database, the user name and the secret
RequiredVariables == {"ODOO_DB", "ODOO_USERNAME", "ODOO_PASSWORD"}

\* the variable is missing from the environment or empty
MissingOrEmpty(name) == ~env[name].defined \/ env[name].s = ""

CredentialsIncomplete == \E name \in RequiredVariables : MissingOrEmpty(name)

\* a session went as far as connect: a client exists, a connect runs or has
\* returned, or a call was handed to the transport
ConnectEntered ==
  commonClient \/ objectClient \/ op = "connect" \/ connects # NoConnects \/ calls # <<>>

\* a route answered from its catch block
RouteFailed ==
  \/ ret.of = "route" /\ ret.val.status = 500
  \/ ret.of = "compare" /\ ret.val.status = 500 /\ ~ret.val.success

\* C23: if any of database, username or secret is missing or empty,
\* ConfigManager construction fails naming the missing fields, and in every
\* route this happens before connect: no transport call (version,
\* authenticate or execute_kw) is ever issued with incomplete credentials.
C23_NoCallWithIncompleteCredentials ==
  /\ CredentialsIncomplete =>
       /\ ~ConnectEntered
       /\ op \in {"idle", "done"}
       /\ op = "done" => RouteFailed
       /\ ret.of = "route" =>
            \A name \in RequiredVariables :
              MissingOrEmpty(name) <=> name \in Range(ret.val.details)
  /\ ~CredentialsIncomplete => ret.of # "route"
  /\ calls # <<>> =>
       config.db # "" /\ config.username # "" /\ config.password # ""

\* C23 witness: with the database unset and the secret empty a route answered
\* 500 with an error that names both and not the user name, and nothing was
\* handed to the transport.
C23_Witness ==
  /\ ~env.ODOO_DB.defined /\ env.ODOO_USERNAME = Set("admin") /\ env.ODOO_PASSWORD = Set("")
  /\ op = "done" /\ ret.of = "route"
  /\ ret.val.details
       = <<"Missing required environment variables: ", "ODOO_DB", ", ", "ODOO_PASSWORD">>
  /\ calls = <<>> /\ ~commonClient

(***************************************************************************)
(* Properties of the barcode-research route.                               *)
(***************************************************************************)
ResearchAnswered == research.pc = "done"

\* the replies the services gave to the requests of the route
RepliesTo(method) ==
  {research.requests[k].reply :
     k \in {j \in 1..Len(research.requests) : research.requests[j].method = method}}

FindFailed == "fault" \in RepliesTo("findByBarcode")
CreateFailed == "fault" \in RepliesTo("createRecord")

\* the lookup service could not be asked, or its request failed
LookupFailed ==
  \/ ~research.apiKey /\ RepliesTo("findByBarcode") # {} /\ RepliesTo("lookupBarcode") = {}
  \/ RepliesTo("lookupBarcode") \cap {"fault", "500"} # {}

\* the lookup service returned the product of the barcode
LookedUp == "ok" \in RepliesTo("lookupBarcode") /\ research.barcode \in {"A", "B"}

\* C24: in the barcode-research flow a failure of the record-store keyed read
\* (findByBarcode) or keyed write (createRecord) never fails the request:
\* after a failed read the external lookup still proceeds as if no record
\* existed, and after a failed write the response is still a success carrying
\* the looked-up data with saved = false.
C24_StoreFailuresAreNotFatal ==
  /\ (ResearchAnswered /\ research.response.status = 500) => LookupFailed
  /\ (FindFailed /\ research.apiKey) =>
       \E k \in 2..Len(research.requests) :
         /\ research.requests[k].method = "lookupBarcode"
         /\ research.requests[k].barcode = research.barcode
  /\ (FindFailed /\ ResearchAnswered) =>
       /\ research.response.source # "database"
       /\ LookedUp => /\ research.response.status = 200 /\ research.response.success
                      /\ research.response.data.barcode = research.barcode
       /\ (~LookedUp /\ ~LookupFailed) => research.response.status = 404
  /\ (CreateFailed /\ ResearchAnswered) =>
       /\ research.response.status = 200 /\ research.response.success
       /\ research.response.source = "api"
       /\ ~research.response.data.isNull
       /\ research.response.data.barcode = research.barcode
       /\ research.response.data.productName
            = (IF research.barcode = "A" THEN "name of A" ELSE "title of B")
       /\ research.response.saved = FALSE

\* C24 witness: the read of the store failed, the product was looked up, the
\* write failed, and the route answered with the product and saved = false.
C24_Witness ==
  /\ ResearchAnswered /\ FindFailed /\ CreateFailed
  /\ research.barcode = "B" /\ research.response.success
  /\ research.response.data.productName = "title of B"
  /\ research.response.saved = FALSE

(***************************************************************************)
(* Properties of the write of updateProductPrice.                          *)
(***************************************************************************)
\* the write call k returned, with a true or with a false acknowledgement
Acknowledged(k) == calls[k].reply = "value" /\ calls[k].rids = <<1>>
Refused(k) == calls[k].reply = "value" /\ calls[k].rids = <<0>>

\* C25 as stated: updateProductPrice returns a succeeded outcome only if the
\* write call completed and acknowledged the mutation (returned true); a
\* write that returns a false acknowledgement, like a write that faults,
\* yields a failed outcome with updated_count 0.
C25_SuccessOnlyIfAcknowledged ==
  UpdateDone =>
    /\ ret.val.success => \E k \in CallsOf("write") : Acknowledged(k)
    /\ (\E k \in CallsOf("write") : Refused(k) \/ calls[k].reply = "fault")
         => ~ret.val.success /\ ret.val.updated_count = 0

\* what updateProductPrice does: the outcome is succeeded exactly when the
\* write call returned, whatever it returned; a write that faults yields a
\* failed outcome with updated_count 0
C25_SuccessIfWriteReturned ==
  UpdateDone =>
    /\ ret.val.success <=> \E k \in CallsOf("write") : calls[k].reply = "value"
    /\ (\E k \in CallsOf("write") : calls[k].reply = "fault")
         => ~ret.val.success /\ ret.val.updated_count = 0

\* a write was answered with a false acknowledgement, the catalog is as it
\* was, and the outcome is succeeded and counts both entities
C25_Witness ==
  /\ UpdateDone /\ \E k \in CallsOf("write") : Refused(k)
  /\ catalog = InitCatalog
  /\ ret.val.success /\ ret.val.updated_count = 2


\* a number >= 0
NonNegativeNumber(p) == p.type = "number" /\ ~p.nan /\ p.v >= 0

\* the write calls issued for a price the price-update route lets through
RouteWrites ==
  IF (op = "update" \/ UpdateDone) /\ ~priceUpdate_badRequest(frame.barcode, frame.newPrice)
  THEN CallsOf("write") ELSE {}

\* C26 as stated: every write call issued by updateProductPrice carries a
\* list_price that is a number >= 0, for any price value a caller can pass
\* through the price-update route (number, numeric or non-numeric string,
\* null, boolean).
C26_WriteCarriesNonNegativeNumber ==
  \A k \in RouteWrites : NonNegativeNumber(calls[k].price)

\* what validatePrice guarantees: a price given as a number or as a string
\* reaches the remote only as a number >= 0, the number it denotes; a price
\* that is neither is handed to the write call as it was given
C26_WriteCarriesValidatedPrice ==
  \A k \in RouteWrites :
    IF frame.newPrice.type \in {"number", "string"}
    THEN NonNegativeNumber(calls[k].price) /\ calls[k].price = Denoted(frame.newPrice)
    ELSE calls[k].price = frame.newPrice

\* the route let null through, the write carried null and the remote applied it
C26_Witness ==
  /\ UpdateDone /\ ret.val.success
  /\ ~priceUpdate_badRequest(frame.barcode, frame.newPrice)
  /\ frame.newPrice = Null
  /\ \E k \in CallsOf("write") : calls[k].price = Null /\ Acknowledged(k)
  /\ catalog[1].list_price = Null


(***************************************************************************)
(* Frame of updateProductPrice.                                            *)
(***************************************************************************)
\* entity id is as it was at the start, its price apart
SavePrice(id) ==
  [catalog[id] EXCEPT !.list_price = InitCatalog[id].list_price] = InitCatalog[id]

\* the outcome failed in validation or because nothing was found
FailedBeforeWrite ==
  /\ UpdateDone /\ ~ret.val.success
  /\ ret.val.message \in {"Barcode cannot be empty", "Invalid price format",
                          "Price cannot be negative", "No products found"}

\* C27: updateProductPrice changes nothing in the remote catalog except the
\* price of the entities whose external identifier equals the trimmed
\* identifier: entities with any other identifier and every non-price field
\* are unchanged, and an outcome that failed by validation or not-found
\* leaves the whole catalog unchanged.
C27_OnlyThePriceOfTheNamedEntities ==
  (op = "update" \/ UpdateDone) =>
    /\ DOMAIN catalog = DOMAIN InitCatalog
    /\ \A id \in DOMAIN catalog :
         /\ SavePrice(id)
         /\ catalog[id].barcode # Trim(frame.barcode) => catalog[id] = InitCatalog[id]
    /\ FailedBeforeWrite => catalog = InitCatalog

\* " A " was given: both entities with identifier A changed price and entity
\* 3, with identifier B, did not
C27_Witness ==
  /\ UpdateDone /\ frame.barcode = <<" ", "A", " ">>
  /\ catalog[1].list_price # InitCatalog[1].list_price
  /\ catalog[2].list_price # InitCatalog[2].list_price
  /\ catalog[3] = InitCatalog[3]


(***************************************************************************)
(* The catalog after batchUpdateFromData.                                  *)
(***************************************************************************)
\* the requests of the batches whose effect on the catalog is checked:
\* several prices for the identifier A, one of them negative, two for B, one
\* of them the string "7x", and one for an identifier no entity carries
ApplyRows ==
  {[barcode |-> <<"A">>, price |-> Num(500)],
   [barcode |-> <<" ", "A", " ">>, price |-> Str(<<"7">>)],
   [barcode |-> <<"A">>, price |-> Num(0 - 100)],
   [barcode |-> <<"B">>, price |-> Num(0)],
   [barcode |-> <<"B">>, price |-> Str(<<"7", "x">>)],
   [barcode |-> <<"C">>, price |-> Num(500)]}

ApplyBatches == UNION {[1..n -> ApplyRows] : n \in 0..MaxBatch}

ApplyNext == NextOver(ApplyBatches, FairRowLists)

ApplySpec == Init /\ [][ApplyNext]_vars

\* request r is a PriceUpdateRequest: a non-empty identifier and a price that
\* is a non-negative number or a string of digits denoting one
RequestValid(r) == ~Blank(data[r].barcode) /\ PriceNonNegative(data[r].price)

\* request r names the identifier of entity id
Names(r, id) == Trim(data[r].barcode) = catalog[id].barcode

\* the last of a non-empty set of requests
LastOf(R) == CHOOSE r \in R : \A q \in R : q <= r

\* entity id holds the price of the last request of R that names it, or its
\* prior price when none does
HoldsLastOf(R, id) ==
  LET N == {r \in R : Names(r, id)}
  IN catalog[id].list_price =
       IF N # {} THEN Denoted(data[LastOf(N)].price) ELSE InitCatalog[id].list_price

\* C28 as stated: after batchUpdateFromData returns with no transport fault,
\* every entity whose identifier is named by at least one valid request holds
\* the price of the last valid request for that identifier in input order,
\* and every entity whose identifier is named by no valid request keeps its
\* prior price.
C28_LastValidRequestWins ==
  (BatchDone /\ ~Faulted) =>
    \A id \in DOMAIN catalog : HoldsLastOf({r \in 1..Len(data) : RequestValid(r)}, id)

\* every write returned with a true acknowledgement
WritesAcknowledged == \A k \in CallsOf("write") : Acknowledged(k)

\* what the batch does: on a connected session, with no transport fault and
\* every write acknowledged, an entity holds the price denoted by the last
\* request that validatePrice and validateBarcode accepted for its
\* identifier, and its prior price when they accepted none
C28_LastAcceptedRequestWins ==
  (BatchDone /\ Connected /\ ~Faulted /\ WritesAcknowledged) =>
    \A id \in DOMAIN catalog : HoldsLastOf({r \in 1..Len(data) : RowValid(r)}, id)

\* B was given the price 0 and then "7x": no transport fault, every write
\* acknowledged, and entity 3 holds 7.00, the price of a request that is not
\* valid, while A holds the price of the later of its two requests
C28_Witness ==
  /\ BatchDone /\ Connected /\ ~Faulted /\ WritesAcknowledged
  /\ Len(data) = 3
  /\ data[1] = [barcode |-> <<"B">>, price |-> Num(0)]
  /\ data[2] = [barcode |-> <<"B">>, price |-> Str(<<"7", "x">>)]
  /\ ~RequestValid(2) /\ RowValid(2)
  /\ catalog[3].list_price = Num(700)
  /\ catalog[4] = InitCatalog[4]


(***************************************************************************)
(* callObject after a connect that returned false.                         *)
(***************************************************************************)
\* the calls handed to the object endpoint since the last connect
ObjectCalls == {k \in 1..Len(calls) : calls[k].endpoint = "object"}

\* C29 as stated: whenever the most recent connect on a session object
\* returned false, callObject rejects with not-connected and issues no
\* transport call, including when an earlier connect on the same object had
\* succeeded.
C29_RejectsAfterFailedConnect ==
  connects.last = "false" => ObjectCalls = {}

\* what the guard of callObject ensures: a call reaches the object endpoint
\* only on a session that holds an object client and a user id, which some
\* connect that returned true has left there; when no connect on the object
\* has ever returned true, no call is issued
C29_RejectsUnlessSomeConnectSucceeded ==
  /\ ObjectCalls # {} => Connected /\ connects.succeeded
  /\ ~connects.succeeded => ~Connected /\ ObjectCalls = {}

\* a connect returned true, the next one returned false, and the update that
\* followed was searched and written on the remote
C29_Witness ==
  /\ connects.succeeded /\ connects.last = "false"
  /\ UpdateDone /\ ret.val.success
  /\ \E k \in ObjectCalls : calls[k].method = "write" /\ Acknowledged(k)


(***************************************************************************)
(* Reconcile, approve, reconcile.                                          *)
(***************************************************************************)
\* the price list was compared, its proposed changes were handed to
\* batchUpdateFromData, and it was compared again
Reconciled ==
  /\ approval.pc = "approved" /\ approval.submitted
  /\ CompareDone /\ ret.val.success

\* C30 as stated: if every comparison classified increase or decrease is
\* submitted to batchUpdateFromData as (identifier, proposed price), no
\* transport fault occurs and nothing else changes the catalog, then a second
\* reconciliation of the same external rows classifies every one of those
\* rows as match.
C30_Converges ==
  (Reconciled /\ ~approval.faulted) =>
    \A k \in Approvable(approval.first) : route.comparisons[k].status = "match"

\* row k proposes a price that validatePrice accepts, and no other proposed
\* change names its identifier with a different such price
Unrivalled(k) ==
  LET cs == approval.first
  IN /\ cs[k].quickbooksPrice.v >= 0
     /\ \A j \in Approvable(cs) :
          (cs[j].barcode = cs[k].barcode /\ cs[j].quickbooksPrice.v >= 0)
            => cs[j].quickbooksPrice = cs[k].quickbooksPrice

\* what the three requests achieve: with no transport fault and every write
\* acknowledged, a row classified increase or decrease is classified match
\* by the second reconciliation when its price is not negative and no other
\* submitted row proposes a different price for its identifier
C30_ConvergesWhereUnrivalled ==
  (Reconciled /\ ~approval.faulted /\ approval.acknowledged) =>
    \A k \in Approvable(approval.first) :
      Unrivalled(k) => route.comparisons[k].status = "match"

\* B was listed at 13.50 and at -5.00: both rows were submitted, no call
\* faulted and every write was acknowledged; the second reconciliation finds
\* the first row a match and the second, whose price validatePrice turned
\* away, a decrease as before
C30_Witness ==
  /\ Reconciled /\ ~approval.faulted /\ approval.acknowledged
  /\ Len(approval.first) = 2
  /\ approval.first[1].status = "increase" /\ route.comparisons[1].status = "match"
  /\ approval.first[2].quickbooksPrice.v < 0
  /\ approval.first[2].status = "decrease" /\ route.comparisons[2].status = "decrease"

====
